---- MODULE Spec2Model ----
(***************************************************************************)
(* stress-hammer: the load-generation engine.                              *)
(*                                                                         *)
(*   ConcurrencySemaphore  (src/src/http-client.ts)   permit pool, FIFO    *)
(*   HttpClient            (src/src/http-client.ts)   makeRequest,         *)
(*                                                    makeConcurrentRequests*)
(*   StressTester          (src/src/stress-tester.ts) constructor, run and *)
(*                                                    the five patterns    *)
(*                                                                         *)
(* The specifications share the variables:                                 *)
(*   Spec       small configurations, every completion order and outcome   *)
(*              of the transport, one step per transport completion;       *)
(*   SpecSched  the configurations named in the documentation (100         *)
(*              requests, ramp 10..100), the transport answering in        *)
(*              dispatch order, one step per phase;                        *)
(*   SpecSem    a ConcurrencySemaphore used by callers that acquire and    *)
(*              release at arbitrary moments;                              *)
(*   SpecTimed  Spec's runs without ramp-up under a clock: every transport *)
(*              call takes `latency`, timers fire at their time;           *)
(*   SpecLog    request logs made one by one or seeded, aggregated by      *)
(*              finalizeTest and reported by reportProgress;               *)
(*   SpecObs    runs whose onProgress callback throws at some invocation;  *)
(*   SpecLive   runs under weak fairness of every step;                    *)
(*   SpecRerun  run() called again after run() has returned;               *)
(*   SpecOverlap  run() called again while a run() is under way.           *)
(***************************************************************************)
EXTENDS Integers, Sequences, FiniteSets, TLC

VARIABLES
    config,          \* StressTester.config (StressTestConfig)
    hasObserver,     \* StressTester.options.onProgress is set
    throwsAt,        \* the invocation at which onProgress throws, or 0
    pc,              \* where the driver of run() is suspended
    failure,         \* message of the Error that left the constructor / run()
    results,         \* StressTester.results
    returned,        \* the StressTestResult objects run() has returned
    logRef,          \* which array object this.results refers to
    returnedRef,     \* for each returned object, the array its `requests` is
    other,           \* SpecOverlap: a second run() invocation on the instance
    batch,           \* loop counter: batch (sustained), wave (wave), stage (spike)
    currentConcurrency,  \* executeRampUpPattern: currentConcurrency
    requestIndex,    \* executeRampUpPattern: requestIndex
    phaseStart,      \* makeConcurrentRequests: startIndex
    phaseCount,      \* makeConcurrentRequests: count
    phaseResults,    \* makeConcurrentRequests: results (completion order)
    permits,         \* ConcurrencySemaphore.permits
    waitQueue,       \* ConcurrencySemaphore.waitQueue
    inflight,        \* indices whose makeRequest is dispatched and unresolved
    dispatched,      \* indices handed to the transport, in call order
    progress,        \* snapshots passed to options.onProgress, in order
    phases,          \* history: the makeConcurrentRequests calls of the run
    pauses,          \* history: the sleep() calls of the run
    outOfOrder,      \* history: some phase settled out of index order
    holding,         \* SpecSem: callers that hold a permit
    suspended,       \* SpecSem: callers suspended in acquire(), in call order
    lastResumed,     \* SpecSem: the caller the last release() resumed, or 0
    now,             \* Date.now()
    latency,         \* SpecTimed: the time the transport takes for one call
    startTime,       \* StressTester.startTime
    endTime,         \* StressTester.endTime
    issuedAt,        \* for each in-flight index, Date.now() at its makeRequest
    wakeAt,          \* when the timer of the pending sleep() fires
    answers          \* SpecLog: what the transport did with each request

vars == << config, hasObserver, throwsAt, pc, failure, results, returned,
           logRef, returnedRef, other, batch,
           currentConcurrency, requestIndex, phaseStart, phaseCount,
           phaseResults, permits, waitQueue, inflight, dispatched, progress,
           phases, pauses, outOfOrder, holding, suspended, lastResumed,
           now, latency, startTime, endTime, issuedAt, wakeAt, answers >>

observerVars == << hasObserver, throwsAt >>
aliasVars == << logRef, returnedRef >>
driverVars == << batch, currentConcurrency, requestIndex >>
phaseVars  == << phaseStart, phaseCount, phaseResults, permits, waitQueue,
                 inflight, dispatched >>
semVars    == << holding, suspended, lastResumed >>
clockVars  == << now, latency >>
timeVars   == << now, latency, startTime, endTime, issuedAt, wakeAt >>
logVars    == << answers >>

-----------------------------------------------------------------------------
(* Bounds of the model.                                                    *)

MaxConc     == 2     \* largest Config.concurrency of Spec
MaxTotal    == 4     \* largest Config.totalRequests of Spec
MaxRampEnd  == 3     \* largest rampUp.endConcurrency of Spec
RampFloor   == 2     \* a ramp with step < 0 is followed down to -RampFloor
NumCallers  == 4     \* SpecSem: number of callers
MaxPermits  == 3     \* SpecSem: largest constructor argument
MaxLatency  == 2     \* SpecTimed: longest time of one transport call
MaxLog      == 2     \* SpecLog: most requests made one by one
MaxAggregations == 2 \* SpecLog: most finalizeTest calls on one log
MaxReports  == 1     \* SpecLog: most reportProgress calls on one log
MaxThrowAt  == 2     \* SpecObs: the latest invocation at which onProgress throws
MaxRuns     == 2     \* SpecRerun: run() calls on one instance, one after the other

(* Program constants.                                                      *)

DefaultStep     == 1       \* executeRampUpPattern: step = 1
waveCount       == 3       \* executeWavePattern
waveDuration    == 2000    \* executeWavePattern
SpikePause      == 1000    \* executeSpikePattern: sleep(1000)
DefaultTimeout  == 30000   \* createAxiosInstance: timeout || 30000
ProgressWindow  == 100     \* reportProgress: this.results.slice(-100)

NoStatus  == 0       \* RequestResult.statusCode is undefined
NoError   == ""      \* RequestResult.error is undefined
NoSize    == 0       \* RequestResult.responseSize is undefined
NoPattern == "undefined"   \* StressTestConfig.pattern is undefined
NoFailure == ""

\* the message of the Error an onProgress callback throws
ObserverError == "onProgress failed"

Min(a, b) == IF a <= b THEN a ELSE b
Max(a, b) == IF a >= b THEN a ELSE b

\* Math.floor(a / b) and Math.ceil(a / b) for integers a and b > 0
FloorDiv(a, b) == a \div b
CeilDiv(a, b)  == -((-a) \div b)

Range(s) == { s[k] : k \in 1..Len(s) }

\* e, with v evaluated first (the folds below run their left half before
\* their right half, which keeps the evaluation shallow)
After(v, e) == IF v = v THEN e ELSE e

-----------------------------------------------------------------------------
(* Configurations.                                                         *)

Patterns == { "burst", "sustained", "ramp-up", "wave", "spike" }

NoRampUp == [ present |-> FALSE, startConcurrency |-> 0, endConcurrency |-> 0,
              rampUpTime |-> 0, hasStep |-> FALSE, step |-> 0 ]

RampUp(s, e, t, hs, st) ==
    [ present |-> TRUE, startConcurrency |-> s, endConcurrency |-> e,
      rampUpTime |-> t, hasStep |-> hs, step |-> st ]

Config(u, c, n, d, dl, t, p, r) ==
    [ url |-> u, concurrency |-> c, totalRequests |-> n, duration |-> d,
      delay |-> dl, timeout |-> t, pattern |-> p, rampUp |-> r ]

\* Valid ramp-up parameters of Spec: every start < end up to MaxRampEnd, with
\* the step absent (RampUp(1, 2, ...)) or one of 1, 2, 0, -1.
ValidRampUps ==
    { r \in [ present : { TRUE }, startConcurrency : 1..MaxRampEnd,
              endConcurrency : 1..MaxRampEnd, rampUpTime : { 100 },
              hasStep : { TRUE }, step : { 1, 2, 0, -1 } ] :
        r.startConcurrency < r.endConcurrency }
    \cup { RampUp(1, 2, 100, FALSE, 0) }

\* Ramp-up parameters validateRampUpConfig rejects, and the missing rampUp.
InvalidRampUps ==
    { NoRampUp,
      RampUp(0, 2, 100, TRUE, 1),  RampUp(-1, 2, 100, TRUE, 1),
      RampUp(2, 2, 100, TRUE, 1),  RampUp(2, 1, 100, TRUE, 1),
      RampUp(1, 0, 100, TRUE, 1),  RampUp(1, 2, 0, TRUE, 1),
      RampUp(1, 2, -100, TRUE, 1) }

\* Configurations of Spec that are run: the rampUp block only with the
\* ramp-up pattern (whose plateaus ignore Config.concurrency), the delay only
\* with the sustained pattern.
RunConfigs ==
    { cfg \in [ url : { TRUE }, concurrency : 1..MaxConc,
                totalRequests : 1..MaxTotal, duration : { 0 },
                delay : { 0, 50 }, timeout : { DefaultTimeout },
                pattern : Patterns \cup { NoPattern },
                rampUp : ValidRampUps \cup InvalidRampUps ] :
        /\ (cfg.pattern # "ramp-up") => (cfg.rampUp = NoRampUp)
        /\ (cfg.pattern \notin { "sustained", NoPattern }) => (cfg.delay = 0)
        /\ (cfg.pattern = "ramp-up") => (cfg.concurrency = 1) }

\* Configurations of Spec that probe the constructor: every combination of
\* a present or missing url, concurrency, totalRequests, duration, timeout.
ProbeConfigs ==
    { Config(u, c, n, d, 0, t, "burst", NoRampUp) :
        u \in BOOLEAN, c \in { -1, 0, 1 }, n \in { -1, 0, 1 },
        d \in { 0, 5000 }, t \in { -5, 0, 5000 } }

Configs == RunConfigs \cup ProbeConfigs

\* Configurations of SpecSched: the documented examples and their neighbours.
DocRampUp == RampUp(10, 100, 9000, TRUE, 10)

SchedConfigs ==
    { Config(TRUE, 100, n, 0, 0, DefaultTimeout, "ramp-up", DocRampUp) :
        n \in { 100, 550, 600, 1000 } }
    \cup { Config(TRUE, c, n, 0, 0, DefaultTimeout, "spike", NoRampUp) :
             c \in { 3, 10, 50 }, n \in { 9, 100 } }
    \cup { Config(TRUE, 10, n, 0, dl, DefaultTimeout, p, NoRampUp) :
             n \in { 25, 100 }, dl \in { 0, 50 },
             p \in { "burst", "sustained", "wave" } }

-----------------------------------------------------------------------------
(* ConcurrencySemaphore, as operations on [permits, waitQueue].            *)

\* (mutant) this.permits = permits
SemNewNoFloor(p) == [ permits |-> p, waitQueue |-> << >> ]

\* constructor(permits)
SemNew(p) == [ permits |-> Max(1, p), waitQueue |-> << >> ]

\* acquire(): the executor of the promise runs synchronously; `who` stands
\* for the resolve function that is pushed.
\* (mutant) the test is permits >= 0
SemAcquireOffByOne(s, who) ==
    IF s.permits >= 0
    THEN [ sem |-> [ s EXCEPT !.permits = @ - 1 ], granted |-> TRUE ]
    ELSE [ sem |-> [ s EXCEPT !.waitQueue = Append(@, who) ], granted |-> FALSE ]

SemAcquire(s, who) ==
    IF s.permits > 0
    THEN [ sem |-> [ s EXCEPT !.permits = @ - 1 ], granted |-> TRUE ]
    ELSE [ sem |-> [ s EXCEPT !.waitQueue = Append(@, who) ], granted |-> FALSE ]

\* (mutant) release() takes the waiter with waitQueue.pop()
SemReleaseLifo(s) ==
    LET s1 == [ s EXCEPT !.permits = @ + 1 ]
    IN  IF Len(s1.waitQueue) > 0
        THEN [ sem |-> [ permits |-> s1.permits - 1,
                         waitQueue |-> SubSeq(s1.waitQueue, 1,
                                              Len(s1.waitQueue) - 1) ],
               resumed |-> << s1.waitQueue[Len(s1.waitQueue)] >> ]
        ELSE [ sem |-> s1, resumed |-> << >> ]

\* (mutant) release() without `this.permits--` when it resumes a waiter
SemReleaseKeepsPermit(s) ==
    LET s1 == [ s EXCEPT !.permits = @ + 1 ]
    IN  IF Len(s1.waitQueue) > 0
        THEN [ sem |-> [ permits |-> s1.permits,
                         waitQueue |-> Tail(s1.waitQueue) ],
               resumed |-> << Head(s1.waitQueue) >> ]
        ELSE [ sem |-> s1, resumed |-> << >> ]

\* release(): `resumed` is the sequence of the resolve functions called.
SemRelease(s) ==
    LET s1 == [ s EXCEPT !.permits = @ + 1 ]
    IN  IF Len(s1.waitQueue) > 0
        THEN [ sem |-> [ permits |-> s1.permits - 1,
                         waitQueue |-> Tail(s1.waitQueue) ],
               resumed |-> << Head(s1.waitQueue) >> ]
        ELSE [ sem |-> s1, resumed |-> << >> ]

-----------------------------------------------------------------------------
(* HttpClient.                                                             *)

\* What the transport (axios, validateStatus: () => true) can do with one
\* request: answer with a status, or reject with an error code.
\* A response has a status; a failure is an error object with its code and
\* message (either may be missing, "") and, when status # 0, a response
\* with that status and statusText.
\* size is what calculateResponseSize makes of the response.
Response(st, rt, sz) ==
    [ kind |-> "response", status |-> st, code |-> "", message |-> "",
      statusText |-> "", responseTime |-> rt, size |-> sz ]

Failure(code, msg, st, txt, rt) ==
    [ kind |-> "failure", status |-> st, code |-> code, message |-> msg,
      statusText |-> txt, responseTime |-> rt, size |-> 0 ]

Outcomes ==
    { Response(200, 12, 230), Response(500, 30, 0),
      Failure("ECONNREFUSED", "connect ECONNREFUSED", 0, "", 0),
      Failure("ECONNABORTED", "timeout of 30000ms exceeded", 0, "", 40) }

\* formatError: codeMessages
codeMessages ==
    [ c \in { "ECONNREFUSED", "ENOTFOUND", "ETIMEDOUT", "ECONNRESET",
              "ECONNABORTED" } |->
        CASE c = "ECONNREFUSED" -> "Connection refused"
          [] c = "ENOTFOUND"    -> "Host not found"
          [] c = "ETIMEDOUT"    -> "Request timeout"
          [] c = "ECONNRESET"   -> "Connection reset"
          [] OTHER              -> "Connection aborted" ]

\* formatError(error)
formatError(o) ==
    IF o.code # ""
    THEN o.code \o ": " \o (IF o.code \in DOMAIN codeMessages
                            THEN codeMessages[o.code] ELSE o.message)
    ELSE IF o.status # 0
    THEN "HTTP " \o ToString(o.status) \o ": " \o o.statusText
    ELSE IF o.message # "" THEN o.message
    ELSE "Unknown network error"

\* (mutant) a response with status >= 400 is turned into an error, as the
\* default validateStatus of the transport would have it
makeRequestRejecting4xx(index, o) ==
    IF o.kind = "response" /\ o.status < 400
    THEN [ index |-> index, statusCode |-> o.status,
           responseTime |-> o.responseTime, responseSize |-> o.size,
           error |-> NoError ]
    ELSE IF o.kind = "response"
    THEN [ index |-> index, statusCode |-> o.status,
           responseTime |-> o.responseTime, responseSize |-> o.size,
           error |-> "HTTP " \o ToString(o.status) \o ": " ]
    ELSE [ index |-> index, statusCode |-> NoStatus,
           responseTime |-> o.responseTime, responseSize |-> NoSize,
           error |-> formatError(o) ]

\* makeRequest(index), once the transport has produced outcome o
makeRequest(index, o) ==
    IF o.kind = "response"
    THEN [ index |-> index, statusCode |-> o.status,
           responseTime |-> o.responseTime, responseSize |-> o.size,
           error |-> NoError ]
    ELSE [ index |-> index, statusCode |-> NoStatus,
           responseTime |-> o.responseTime, responseSize |-> NoSize,
           error |-> formatError(o) ]

\* results.sort((a, b) => a.index - b.index)
\* (a stable sort: r goes behind the elements that do not compare greater;
\* the elements lo+1..hi of s are inserted one after the other, in order)
InsertByIndex(sorted, r) ==
    LET before == Cardinality({ k \in 1..Len(sorted) :
                                  sorted[k].index - r.index <= 0 })
    IN  SubSeq(sorted, 1, before) \o << r >>
          \o SubSeq(sorted, before + 1, Len(sorted))

RECURSIVE InsertAll(_, _, _, _)
InsertAll(sorted, s, lo, hi) ==
    IF lo >= hi THEN sorted
    ELSE IF hi = lo + 1 THEN InsertByIndex(sorted, s[hi])
    ELSE LET mid == (lo + hi) \div 2
             left == InsertAll(sorted, s, lo, mid)
         IN  After(left, InsertAll(left, s, mid, hi))

\* (mutant) the results are returned in completion order
SortByIndexSkipped(s) == s

SortByIndex(s) == InsertAll(<< >>, s, 0, Len(s))

\* The state of one makeConcurrentRequests call.
PhaseState == [ permits |-> permits, waitQueue |-> waitQueue,
                inflight |-> inflight, phaseResults |-> phaseResults,
                dispatched |-> dispatched ]

\* Array.from({ length: count }, async (_, i) => ...): the callbacks run in
\* order i = 0..count-1, each up to its `await semaphore.acquire()`.
\* AcquireAll(acc, lo, hi) runs the callbacks lo..hi-1 in that order.
AcquireOne(acc, i) ==
    LET a == SemAcquire(acc.sem, i)
    IN  [ sem |-> a.sem,
          granted |-> IF a.granted THEN Append(acc.granted, i) ELSE acc.granted ]

RECURSIVE AcquireAll(_, _, _)
AcquireAll(acc, lo, hi) ==
    IF lo >= hi THEN acc
    ELSE IF hi = lo + 1 THEN AcquireOne(acc, lo)
    ELSE LET mid == (lo + hi) \div 2
             left == AcquireAll(acc, lo, mid)
         IN  After(left, AcquireAll(left, mid, hi))

\* makeConcurrentRequests(startIndex, count, concurrency) up to
\* `await Promise.all`: the callers that got a permit call makeRequest.
BeginPhase(startIndex, count, concurrency, calls) ==
    LET a == AcquireAll([ sem |-> SemNew(concurrency), granted |-> << >> ],
                        0, count)
    IN  [ permits |-> a.sem.permits, waitQueue |-> a.sem.waitQueue,
          inflight |-> { startIndex + a.granted[k] : k \in 1..Len(a.granted) },
          phaseResults |-> << >>,
          dispatched |-> calls \o [ k \in 1..Len(a.granted) |->
                                      startIndex + a.granted[k] ] ]

\* (mutant) a failed request resolves without its Result being pushed
CompleteRequestDropFailed(ph, startIndex, idx, o) ==
    LET rel == SemRelease([ permits |-> ph.permits, waitQueue |-> ph.waitQueue ])
        woken == [ k \in 1..Len(rel.resumed) |-> startIndex + rel.resumed[k] ]
    IN  [ permits |-> rel.sem.permits, waitQueue |-> rel.sem.waitQueue,
          inflight |-> (ph.inflight \ { idx }) \cup Range(woken),
          phaseResults |-> IF o.kind = "failure" THEN ph.phaseResults
                           ELSE Append(ph.phaseResults, makeRequest(idx, o)),
          dispatched |-> ph.dispatched \o woken ]

\* (mutant) a failed request is sent again
CompleteRequestRetry(ph, startIndex, idx, o) ==
    LET rel == SemRelease([ permits |-> ph.permits, waitQueue |-> ph.waitQueue ])
        woken == [ k \in 1..Len(rel.resumed) |-> startIndex + rel.resumed[k] ]
    IN  IF o.kind = "failure" /\ Len(ph.dispatched) < 2 * Len(ph.phaseResults) + 2
        THEN [ ph EXCEPT !.dispatched = Append(@, idx) ]
        ELSE [ permits |-> rel.sem.permits, waitQueue |-> rel.sem.waitQueue,
               inflight |-> (ph.inflight \ { idx }) \cup Range(woken),
               phaseResults |-> Append(ph.phaseResults, makeRequest(idx, o)),
               dispatched |-> ph.dispatched \o woken ]

\* The transport settles request idx with outcome o: makeRequest resolves,
\* the Result is pushed, `finally` releases the permit, and the caller the
\* release resumed calls makeRequest.
CompleteRequest(ph, startIndex, idx, o) ==
    LET rel == SemRelease([ permits |-> ph.permits, waitQueue |-> ph.waitQueue ])
        woken == [ k \in 1..Len(rel.resumed) |-> startIndex + rel.resumed[k] ]
    IN  [ permits |-> rel.sem.permits, waitQueue |-> rel.sem.waitQueue,
          inflight |-> (ph.inflight \ { idx }) \cup Range(woken),
          phaseResults |-> Append(ph.phaseResults, makeRequest(idx, o)),
          dispatched |-> ph.dispatched \o woken ]

\* (mutant) the phase's promise resolves with its first Result
PhaseSettledFirst(ph, count) == Len(ph.phaseResults) >= Min(1, Max(0, count))

\* `await Promise.all(requestPromises)` has resolved
PhaseSettled(ph, count) == Len(ph.phaseResults) = Max(0, count)

-----------------------------------------------------------------------------
(* StressTester: validation.                                               *)

\* validateConfig(config): the message of the Error thrown, or NoFailure.
\* `config.timeout && config.timeout <= 0` is false for timeout 0.
validateConfig(cfg) ==
    IF ~cfg.url THEN "URL is required"
    ELSE IF cfg.concurrency <= 0 THEN "Concurrency must be greater than 0"
    ELSE IF cfg.totalRequests <= 0 THEN "Total requests must be greater than 0"
    ELSE IF cfg.timeout # 0 /\ cfg.timeout <= 0
         THEN "Timeout must be greater than 0"
    ELSE NoFailure

\* (mutant) start >= end is not checked
validateRampUpConfigNoOrder(r) ==
    IF r.startConcurrency <= 0 \/ r.endConcurrency <= 0
    THEN "Ramp-up concurrency values must be greater than 0"
    ELSE IF r.rampUpTime <= 0 THEN "Ramp-up time must be greater than 0"
    ELSE NoFailure

\* validateRampUpConfig(rampUp): the message of the Error thrown, or NoFailure
validateRampUpConfig(r) ==
    IF r.startConcurrency <= 0 \/ r.endConcurrency <= 0
    THEN "Ramp-up concurrency values must be greater than 0"
    ELSE IF r.startConcurrency >= r.endConcurrency
    THEN "End concurrency must be greater than start concurrency"
    ELSE IF r.rampUpTime <= 0 THEN "Ramp-up time must be greater than 0"
    ELSE NoFailure

-----------------------------------------------------------------------------
(* StressTester: the pattern schedulers.  Each operator gives what the     *)
(* driver does from one suspension point to the next: start a phase        *)
(* (makeConcurrentRequests), sleep, finish, or throw.                      *)

ToPhase(s, n, c, b, cc, ri) ==
    [ kind |-> "phase", startIndex |-> s, count |-> n, concurrency |-> c,
      num |-> 0, den |-> 1, batch |-> b, currentConcurrency |-> cc,
      requestIndex |-> ri, msg |-> NoFailure ]

ToSleep(ms, b, cc, ri) ==
    [ kind |-> "sleep", startIndex |-> 0, count |-> 0, concurrency |-> 0,
      num |-> ms.num, den |-> ms.den, batch |-> b, currentConcurrency |-> cc,
      requestIndex |-> ri, msg |-> NoFailure ]

ToDone ==
    [ kind |-> "done", startIndex |-> 0, count |-> 0, concurrency |-> 0,
      num |-> 0, den |-> 1, batch |-> 0, currentConcurrency |-> 0,
      requestIndex |-> 0, msg |-> NoFailure ]

ToFail(m) ==
    [ kind |-> "fail", startIndex |-> 0, count |-> 0, concurrency |-> 0,
      num |-> 0, den |-> 1, batch |-> 0, currentConcurrency |-> 0,
      requestIndex |-> 0, msg |-> m ]

\* a sleep of a whole number of milliseconds
Ms(n) == [ num |-> n, den |-> 1 ]

\* executePattern: this.config.pattern || "sustained"
PatternOf(cfg) == IF cfg.pattern = NoPattern THEN "sustained" ELSE cfg.pattern

\* executeSustainedPattern
batchSize(cfg) == Min(cfg.concurrency, cfg.totalRequests)
batches(cfg)   == CeilDiv(cfg.totalRequests, batchSize(cfg))

\* (mutant) every request is sent in one phase with a permit for each
SustainedLoopAllAtOnce(cfg, b) ==
    IF b < 1
    THEN ToPhase(0, cfg.totalRequests, cfg.totalRequests, b, 0, 0)
    ELSE ToDone

SustainedLoop(cfg, b) ==
    IF b < batches(cfg)
    THEN LET startIndex == b * batchSize(cfg)
         IN  ToPhase(startIndex,
                     Min(batchSize(cfg), cfg.totalRequests - startIndex),
                     cfg.concurrency, b, 0, 0)
    ELSE ToDone

\* (mutant) the delay is slept after every batch, the last one included
SustainedAfterPhaseSleepAlways(cfg, b) ==
    IF cfg.delay # 0
    THEN ToSleep(Ms(cfg.delay), b, 0, 0)
    ELSE SustainedLoop(cfg, b + 1)

SustainedAfterPhase(cfg, b) ==
    IF cfg.delay # 0 /\ b < batches(cfg) - 1
    THEN ToSleep(Ms(cfg.delay), b, 0, 0)
    ELSE SustainedLoop(cfg, b + 1)

SustainedAfterSleep(cfg, b) == SustainedLoop(cfg, b + 1)

\* (mutant) a phase of at most Config.concurrency requests
BurstStartOneBatch(cfg) ==
    ToPhase(0, Min(cfg.concurrency, cfg.totalRequests), cfg.concurrency, 0, 0, 0)

\* executeBurstPattern
BurstStart(cfg) == ToPhase(0, cfg.totalRequests, cfg.concurrency, 0, 0, 0)

BurstAfterPhase(cfg) == ToDone

\* executeWavePattern
requestsPerWave(cfg) == FloorDiv(cfg.totalRequests, waveCount)

\* (mutant) the last wave takes requestsPerWave like the others
WaveLoopNoRemainder(cfg, wave) ==
    IF wave < waveCount
    THEN ToPhase(wave * requestsPerWave(cfg), requestsPerWave(cfg),
                 cfg.concurrency, wave, 0, 0)
    ELSE ToDone

WaveLoop(cfg, wave) ==
    IF wave < waveCount
    THEN LET startIndex == wave * requestsPerWave(cfg)
         IN  ToPhase(startIndex,
                     IF wave = waveCount - 1
                     THEN cfg.totalRequests - startIndex
                     ELSE requestsPerWave(cfg),
                     cfg.concurrency, wave, 0, 0)
    ELSE ToDone

\* (mutant) the pause is taken after every wave, the last one included
WaveAfterPhaseSleepAlways(cfg, wave) ==
    ToSleep(Ms(waveDuration), wave, 0, 0)

WaveAfterPhase(cfg, wave) ==
    IF wave < waveCount - 1
    THEN ToSleep(Ms(waveDuration), wave, 0, 0)
    ELSE WaveLoop(cfg, wave + 1)

WaveAfterSleep(cfg, wave) == WaveLoop(cfg, wave + 1)

\* executeSpikePattern.  Math.floor(n * 0.8) = floor(8n / 10) and
\* Math.floor(c * 0.3) = floor(3c / 10) for the integers of the model.
spikeRequests(cfg)  == FloorDiv(cfg.totalRequests * 8, 10)
normalRequests(cfg) == cfg.totalRequests - spikeRequests(cfg)

\* (mutant) the 80% phase is the one run first, under the reduced limiter
SpikeStartLargeFirst(cfg) ==
    ToPhase(0, spikeRequests(cfg), FloorDiv(cfg.concurrency * 3, 10), 0, 0, 0)

\* batch = 0: the normal load phase and the pause; batch = 1: the spike phase
SpikeStart(cfg) ==
    IF normalRequests(cfg) > 0
    THEN ToPhase(0, normalRequests(cfg), FloorDiv(cfg.concurrency * 3, 10),
                 0, 0, 0)
    ELSE ToSleep(Ms(SpikePause), 0, 0, 0)

\* (mutant) the spike phase follows the normal phase without the pause
SpikeAfterPhaseNoPause(cfg, stage) ==
    IF stage = 0
    THEN ToPhase(normalRequests(cfg), spikeRequests(cfg), cfg.concurrency, 1, 0, 0)
    ELSE ToDone

\* after `await makeConcurrentRequests(...)` of the normal (stage 0) and of
\* the spike (stage 1) phase
SpikeAfterPhase(cfg, stage) ==
    IF stage = 0 THEN ToSleep(Ms(SpikePause), 0, 0, 0) ELSE ToDone

SpikeAfterSleep(cfg) ==
    ToPhase(normalRequests(cfg), spikeRequests(cfg), cfg.concurrency, 1, 0, 0)

\* executeRampUpPattern
StepOf(r) == IF r.hasStep THEN r.step ELSE DefaultStep

\* rampUpTime / Math.ceil((endConcurrency - startConcurrency) / step), as the
\* fraction num/den; den = 0 stands for a division by -0 (-Infinity), and
\* the division by +Infinity of step = 0 gives 0.
stepDuration(r) ==
    LET span == r.endConcurrency - r.startConcurrency
        step == StepOf(r)
    IN  IF step > 0 THEN [ num |-> r.rampUpTime, den |-> CeilDiv(span, step) ]
        ELSE IF step = 0 THEN [ num |-> 0, den |-> 1 ]
        ELSE [ num |-> -r.rampUpTime, den |-> span \div (-step) ]

\* (mutant) the loop condition is currentConcurrency < endConcurrency
RampLoopBelowEnd(cfg, cc, ri) ==
    IF cc < cfg.rampUp.endConcurrency /\ ri < cfg.totalRequests
    THEN ToPhase(ri, Min(cc, cfg.totalRequests - ri), cc, 0, cc, ri)
    ELSE ToDone

\* (mutant) the limiter of a plateau is built from Config.concurrency
RampLoopConfigConcurrency(cfg, cc, ri) ==
    IF cc <= cfg.rampUp.endConcurrency /\ ri < cfg.totalRequests
    THEN ToPhase(ri, Min(cc, cfg.totalRequests - ri), cfg.concurrency, 0, cc, ri)
    ELSE ToDone

RampLoop(cfg, cc, ri) ==
    IF cc <= cfg.rampUp.endConcurrency /\ ri < cfg.totalRequests
    THEN ToPhase(ri, Min(cc, cfg.totalRequests - ri), cc, 0, cc, ri)
    ELSE ToDone

RampStart(cfg) ==
    IF ~cfg.rampUp.present
    THEN ToFail("Ramp-up configuration is required for ramp-up pattern")
    ELSE IF validateRampUpConfig(cfg.rampUp) # NoFailure
    THEN ToFail(validateRampUpConfig(cfg.rampUp))
    ELSE RampLoop(cfg, cfg.rampUp.startConcurrency, 0)

\* (mutant) the loop is left once the plateau at endConcurrency has run
RampAfterPhaseStopAtEnd(cfg, cc, ri, requestsToSend) ==
    IF cc < cfg.rampUp.endConcurrency
    THEN ToSleep(stepDuration(cfg.rampUp), 0,
                 Min(cc + StepOf(cfg.rampUp), cfg.rampUp.endConcurrency),
                 ri + requestsToSend)
    ELSE ToDone

\* after `await makeConcurrentRequests(requestIndex, requestsToSend, ...)`
RampAfterPhase(cfg, cc, ri, requestsToSend) ==
    IF cc < cfg.rampUp.endConcurrency
    THEN ToSleep(stepDuration(cfg.rampUp), 0,
                 Min(cc + StepOf(cfg.rampUp), cfg.rampUp.endConcurrency),
                 ri + requestsToSend)
    ELSE RampLoop(cfg, cc, ri + requestsToSend)

RampAfterSleep(cfg, cc, ri) == RampLoop(cfg, cc, ri)

\* executePattern, from its call to the first suspension
StartPattern(cfg) ==
    CASE PatternOf(cfg) = "burst"   -> BurstStart(cfg)
      [] PatternOf(cfg) = "ramp-up" -> RampStart(cfg)
      [] PatternOf(cfg) = "wave"    -> WaveLoop(cfg, 0)
      [] PatternOf(cfg) = "spike"   -> SpikeStart(cfg)
      [] OTHER                      -> SustainedLoop(cfg, 0)

\* the continuation of the pattern after `await makeConcurrentRequests`
AfterPhaseOf(cfg, b, cc, ri, count) ==
    CASE PatternOf(cfg) = "burst"   -> BurstAfterPhase(cfg)
      [] PatternOf(cfg) = "ramp-up" -> RampAfterPhase(cfg, cc, ri, count)
      [] PatternOf(cfg) = "wave"    -> WaveAfterPhase(cfg, b)
      [] PatternOf(cfg) = "spike"   -> SpikeAfterPhase(cfg, b)
      [] OTHER                      -> SustainedAfterPhase(cfg, b)

\* the continuation of the pattern after `await this.sleep`
AfterSleepOf(cfg, b, cc, ri) ==
    CASE PatternOf(cfg) = "ramp-up" -> RampAfterSleep(cfg, cc, ri)
      [] PatternOf(cfg) = "wave"    -> WaveAfterSleep(cfg, b)
      [] PatternOf(cfg) = "spike"   -> SpikeAfterSleep(cfg)
      [] OTHER                      -> SustainedAfterSleep(cfg, b)

\* (mutant) only the Results with an error field are counted
IsErrorFieldOnly(r) == r.error # NoError

\* reportProgress: the Results counted as errors
IsError(r) == r.error # NoError \/ (r.statusCode # NoStatus /\ r.statusCode >= 400)


-----------------------------------------------------------------------------
(* StressTester: the statistics.  A quotient of the code is kept as the    *)
(* fraction num/den.                                                       *)

Frac(n, d) == [ num |-> n, den |-> d ]

\* array.map((r) => r.field) for the sequence s of Results
Pluck(s, field) == [ k \in 1..Len(s) |-> s[k][field] ]

\* numbers.sort((a, b) => a - b): x goes behind the elements that do not
\* compare greater
InsertNumber(sorted, x) ==
    LET before == Cardinality({ k \in 1..Len(sorted) : sorted[k] - x <= 0 })
    IN  SubSeq(sorted, 1, before) \o << x >>
          \o SubSeq(sorted, before + 1, Len(sorted))

RECURSIVE InsertNumbers(_, _, _, _)
InsertNumbers(sorted, s, lo, hi) ==
    IF lo >= hi THEN sorted
    ELSE IF hi = lo + 1 THEN InsertNumber(sorted, s[hi])
    ELSE LET mid == (lo + hi) \div 2
             left == InsertNumbers(sorted, s, lo, mid)
         IN  After(left, InsertNumbers(left, s, mid, hi))

\* (mutant) the response times are left in the order of the log
SortNumbersSkipped(s) == s

SortNumbers(s) == InsertNumbers(<< >>, s, 0, Len(s))

\* numbers.reduce((sum, num) => sum + num, 0) over s[lo+1..hi]
RECURSIVE SumOf(_, _, _)
SumOf(s, lo, hi) ==
    IF lo >= hi THEN 0
    ELSE IF hi = lo + 1 THEN s[hi]
    ELSE LET mid == (lo + hi) \div 2
             left == SumOf(s, lo, mid)
         IN  After(left, left + SumOf(s, mid, hi))

\* calculateStats: successfulRequests, failedRequests
IsSuccessful(r) == r.statusCode # NoStatus /\ r.statusCode < 400

\* (mutant) only the Results with an error are failed
IsFailedErrorOnly(r) == r.error # NoError

IsFailed(r) == r.statusCode = NoStatus \/ r.statusCode >= 400 \/ r.error # NoError

\* (mutant) the Results with responseTime 0 are kept
responseTimesWithZero(res) ==
    SortNumbers(Pluck(SelectSeq(res, LAMBDA r : r.responseTime >= 0),
                      "responseTime"))

\* calculateStats: responseTimes
responseTimes(res) ==
    SortNumbers(Pluck(SelectSeq(res, LAMBDA r : r.responseTime > 0),
                      "responseTime"))

\* (mutant) the index is Math.floor((percentile / 100) * length)
calculatePercentileFloor(sortedArray, percentile) ==
    IF Len(sortedArray) = 0 THEN 0
    ELSE LET index == FloorDiv(percentile * Len(sortedArray), 100)
         IN  sortedArray[Max(0, Min(index, Len(sortedArray) - 1)) + 1]

\* calculatePercentile(sortedArray, percentile); Math.ceil((p / 100) * n)
\* is ceil(p * n / 100) for p = 50, 95, 99 and the lengths of the model
calculatePercentile(sortedArray, percentile) ==
    IF Len(sortedArray) = 0 THEN 0
    ELSE LET index == CeilDiv(percentile * Len(sortedArray), 100) - 1
         IN  sortedArray[Max(0, Min(index, Len(sortedArray) - 1)) + 1]

\* calculateAverage(numbers)
calculateAverage(numbers) ==
    IF Len(numbers) > 0
    THEN Frac(SumOf(numbers, 0, Len(numbers)), Len(numbers))
    ELSE Frac(0, 1)

\* (mutant) distribution[key] = 1
BumpNoIncrement(distribution, key) ==
    [ k \in DOMAIN distribution \cup { key } |->
        IF k = key THEN 1 ELSE distribution[k] ]

\* distribution[key] = (distribution[key] || 0) + 1
Bump(distribution, key) ==
    [ k \in DOMAIN distribution \cup { key } |->
        IF k = key
        THEN (IF key \in DOMAIN distribution THEN distribution[key] ELSE 0) + 1
        ELSE distribution[k] ]

\* forEach over keys[lo+1..hi]
RECURSIVE Tally(_, _, _, _)
Tally(distribution, keys, lo, hi) ==
    IF lo >= hi THEN distribution
    ELSE IF hi = lo + 1 THEN Bump(distribution, keys[hi])
    ELSE LET mid == (lo + hi) \div 2
             left == Tally(distribution, keys, lo, mid)
         IN  After(left, Tally(left, keys, mid, hi))

\* (mutant) a failed Result without an error field is not counted
calculateErrorDistributionErrorsOnly(failedRequests) ==
    LET named == { k \in 1..Len(failedRequests) : failedRequests[k].error # NoError }
        nth(i) == CHOOSE k \in named : Cardinality({ j \in named : j <= k }) = i
        keys == [ i \in 1..Cardinality(named) |-> failedRequests[nth(i)].error ]
    IN  Tally(<< >>, keys, 0, Len(keys))

\* calculateErrorDistribution(failedRequests)
calculateErrorDistribution(failedRequests) ==
    LET keys == [ k \in 1..Len(failedRequests) |->
                    IF failedRequests[k].error # NoError
                    THEN failedRequests[k].error
                    ELSE "Unknown error" ]
    IN  Tally(<< >>, keys, 0, Len(keys))

\* (mutant) the status codes are counted by class: 200, 300, 400, 500
calculateStatusCodeDistributionByClass(res) ==
    LET codes == Pluck(SelectSeq(res, LAMBDA r : r.statusCode # NoStatus),
                       "statusCode")
        keys == [ k \in 1..Len(codes) |-> FloorDiv(codes[k], 100) * 100 ]
    IN  Tally(<< >>, keys, 0, Len(keys))

\* calculateStatusCodeDistribution()
calculateStatusCodeDistribution(res) ==
    LET keys == Pluck(SelectSeq(res, LAMBDA r : r.statusCode # NoStatus),
                      "statusCode")
    IN  Tally(<< >>, keys, 0, Len(keys))

\* calculateStats(), for this.results = res, this.startTime = st and
\* this.endTime = et
calculateStats(res, st, et) ==
    LET successfulRequests == SelectSeq(res, IsSuccessful)
        failedRequests == SelectSeq(res, IsFailed)
        times == responseTimes(res)
        duration == et - st
    IN  [ totalRequests |-> Len(res),
          successfulRequests |-> Len(successfulRequests),
          failedRequests |-> Len(failedRequests),
          successRate |-> IF Len(res) > 0
                          THEN Frac(Len(successfulRequests) * 100, Len(res))
                          ELSE Frac(0, 1),
          avgResponseTime |-> calculateAverage(times),
          minResponseTime |-> IF Len(times) > 0 THEN times[1] ELSE 0,
          maxResponseTime |-> IF Len(times) > 0 THEN times[Len(times)] ELSE 0,
          p50ResponseTime |-> calculatePercentile(times, 50),
          p95ResponseTime |-> calculatePercentile(times, 95),
          p99ResponseTime |-> calculatePercentile(times, 99),
          requestsPerSecond |-> IF duration > 0
                                THEN Frac(Len(res) * 1000, duration)
                                ELSE Frac(0, 1),
          totalDataTransferred |->
              SumOf(Pluck(res, "responseSize"), 0, Len(res)),
          errorDistribution |-> calculateErrorDistribution(failedRequests),
          statusCodeDistribution |-> calculateStatusCodeDistribution(res) ]

\* (mutant) calculateStats sorts this.results itself, by response time,
\* instead of a filtered copy
finalizeTestSortingLog(res, cfg, st, et) ==
    LET n == Len(res)
        rank == [ k \in 1..n |->
                    Cardinality({ j \in 1..n :
                        \/ res[j].responseTime < res[k].responseTime
                        \/ /\ res[j].responseTime = res[k].responseTime
                           /\ j <= k }) ]
        sorted == [ i \in 1..n |-> res[CHOOSE k \in 1..n : rank[k] = i] ]
    IN  [ config |-> cfg, requests |-> sorted,
          stats |-> calculateStats(sorted, st, et),
          duration |-> et - st, startTime |-> st, endTime |-> et ]

\* finalizeTest: the StressTestResult returned; `requests` is this.results
\* as calculateStats() leaves it
finalizeTest(res, cfg, st, et) ==
    [ config |-> cfg, requests |-> res, stats |-> calculateStats(res, st, et),
      duration |-> et - st, startTime |-> st, endTime |-> et ]

\* (mutant) the throughput and the average are taken over the whole log
reportProgressWholeLog(res, cfg, st, t) ==
    LET completed == Len(res)
        total == cfg.totalRequests
        recentResults == res
        recent == Len(recentResults)
    IN  [ completed |-> completed,
          total |-> total,
          percentage |-> IF total > 0 THEN Frac(completed * 100, total)
                         ELSE Frac(0, 1),
          currentRps |-> IF recent > 0 /\ st > 0
                         THEN Frac(recent * 1000, t - st)
                         ELSE Frac(0, 1),
          avgResponseTime |->
              IF recent > 0
              THEN Frac(SumOf(Pluck(recentResults, "responseTime"), 0, recent),
                        recent)
              ELSE Frac(0, 1),
          errors |-> Cardinality({ k \in 1..Len(res) : IsError(res[k]) }) ]

\* reportProgress(): the snapshot handed to onProgress, for this.results =
\* res, this.startTime = st and Date.now() = t.  recentResults is
\* this.results.slice(-100); recent / ((t - st) / 1000) is kept as the
\* fraction recent * 1000 / (t - st), whose den = 0 stands for Infinity.
reportProgress(res, cfg, st, t) ==
    LET completed == Len(res)
        total == cfg.totalRequests
        recentResults == SubSeq(res, Max(1, Len(res) - ProgressWindow + 1),
                                Len(res))
        recent == Len(recentResults)
    IN  [ completed |-> completed,
          total |-> total,
          percentage |-> IF total > 0 THEN Frac(completed * 100, total)
                         ELSE Frac(0, 1),
          currentRps |-> IF recent > 0 /\ st > 0
                         THEN Frac(recent * 1000, t - st)
                         ELSE Frac(0, 1),
          avgResponseTime |->
              IF recent > 0
              THEN Frac(SumOf(Pluck(recentResults, "responseTime"), 0, recent),
                        recent)
              ELSE Frac(0, 1),
          errors |-> Cardinality({ k \in 1..Len(res) : IsError(res[k]) }) ]

\* sleep(ms): setTimeout(resolve, ms) fires once ms has passed
SleepMs(num, den) == IF den > 0 /\ num >= den THEN CeilDiv(num, den) ELSE 1

\* makeRequest: `const timestamp = Date.now()` of the requests in flight;
\* those newly dispatched get the present time
Issue(at, flying, t) ==
    [ i \in flying |-> IF i \in DOMAIN at THEN at[i] ELSE t ]

\* (mutant) initializeTest empties the array in place: this.results.length = 0
initializeTestInPlace(ref) == ref

\* initializeTest: `this.results = []`, an array of its own.  Arrays are
\* told apart by a number; `ref` is the array this.results referred to.
initializeTest(ref) == ref + 1

\* no second run() invocation was made
NoOther == [ pc |-> "idle", d |-> ToDone, returnedAs |-> 0 ]

-----------------------------------------------------------------------------
(* The state machine.                                                      *)

Idle ==
    /\ failure = NoFailure
    /\ results = << >>
    /\ returned = << >>
    /\ logRef = 0
    /\ returnedRef = << >>
    /\ other = NoOther
    /\ batch = 0
    /\ currentConcurrency = 0
    /\ requestIndex = 0
    /\ phaseStart = 0
    /\ phaseCount = 0
    /\ phaseResults = << >>
    /\ permits = 0
    /\ waitQueue = << >>
    /\ inflight = {}
    /\ dispatched = << >>
    /\ progress = << >>
    /\ phases = << >>
    /\ pauses = << >>
    /\ outOfOrder = FALSE
    /\ holding = {}
    /\ suspended = << >>
    /\ lastResumed = 0
    /\ now = 0
    /\ startTime = 0
    /\ endTime = 0
    /\ issuedAt = << >>
    /\ wakeAt = 0
    /\ answers = << >>

\* A StressTester is about to be constructed from a configuration.  The
\* clock stands still: latency = 0 and no action of Spec advances now.
Init ==
    /\ config \in Configs
    /\ hasObserver \in BOOLEAN
    /\ throwsAt = 0
    /\ pc = "init"
    /\ latency = 0
    /\ Idle

InitSched ==
    /\ config \in SchedConfigs
    /\ hasObserver \in BOOLEAN
    /\ throwsAt = 0
    /\ pc = "init"
    /\ latency = 0
    /\ Idle

\* The driver moves to its next suspension point: d is the decision of the
\* pattern scheduler, res the run log and st this.startTime at that moment.
Proceed(d, res, st) ==
    /\ batch' = d.batch
    /\ currentConcurrency' = d.currentConcurrency
    /\ requestIndex' = d.requestIndex
    /\ IF d.kind = "phase"
       THEN LET ph == BeginPhase(d.startIndex, d.count, d.concurrency, dispatched)
            IN  /\ pc' = "phase"
                /\ phaseStart' = d.startIndex
                /\ phaseCount' = d.count
                /\ phaseResults' = ph.phaseResults
                /\ permits' = ph.permits
                /\ waitQueue' = ph.waitQueue
                /\ inflight' = ph.inflight
                /\ dispatched' = ph.dispatched
                /\ issuedAt' = Issue(<< >>, ph.inflight, now)
                /\ UNCHANGED << wakeAt, endTime >>
                /\ phases' = Append(phases,
                      [ startIndex |-> d.startIndex, count |-> d.count,
                        concurrency |-> d.concurrency,
                        resolvedBefore |-> Len(res) ])
                /\ UNCHANGED << pauses, returned, returnedRef, failure >>
       ELSE /\ phaseStart' = 0
            /\ phaseCount' = 0
            /\ phaseResults' = << >>
            /\ permits' = 0
            /\ waitQueue' = << >>
            /\ inflight' = {}
            /\ issuedAt' = << >>
            /\ UNCHANGED << dispatched, phases >>
            /\ CASE d.kind = "sleep" ->
                      /\ pc' = "sleep"
                      /\ wakeAt' = now + SleepMs(d.num, d.den)
                      /\ UNCHANGED endTime
                      /\ pauses' = Append(pauses,
                            [ num |-> d.num, den |-> d.den,
                              phasesBefore |-> Len(phases),
                              resolvedBefore |-> Len(res) ])
                      /\ UNCHANGED << returned, returnedRef, failure >>
                 [] d.kind = "done" ->
                      /\ pc' = "done"
                      /\ endTime' = now
                      /\ returned' = Append(returned,
                            finalizeTest(res, config, st, now))
                      /\ returnedRef' = Append(returnedRef, logRef)
                      /\ UNCHANGED << pauses, failure, wakeAt >>
                 [] OTHER ->
                      /\ pc' = "failed"
                      /\ failure' = d.msg
                      /\ UNCHANGED << pauses, returned, returnedRef, wakeAt,
                                      endTime >>

\* new StressTester(config, options)
Construct ==
    /\ pc = "init"
    /\ IF validateConfig(config) = NoFailure
       THEN pc' = "ready" /\ UNCHANGED failure
       ELSE pc' = "rejected" /\ failure' = validateConfig(config)
    /\ UNCHANGED << config, observerVars, results, returned, aliasVars,
                    other, driverVars,
                    phaseVars, progress, phases, pauses, outOfOrder, semVars,
                    logVars,
                    timeVars >>

\* run(): initializeTest, then executePattern up to its first suspension
RunStart ==
    /\ pc = "ready"
    /\ startTime' = now
    /\ results' = << >>
    /\ logRef' = initializeTest(logRef)
    /\ Proceed(StartPattern(config), << >>, now)
    /\ UNCHANGED << config, observerVars, other, progress, outOfOrder, semVars,
                    logVars,
                    clockVars >>

\* (mutant) the callback of each request reports progress as soon as its
\* Result is known
CompleteReporting ==
    /\ pc = "phase"
    /\ \E idx \in inflight, o \in Outcomes :
         LET ph == CompleteRequest(PhaseState, phaseStart, idx, o)
         IN  /\ permits' = ph.permits
             /\ waitQueue' = ph.waitQueue
             /\ inflight' = ph.inflight
             /\ phaseResults' = ph.phaseResults
             /\ dispatched' = ph.dispatched
             /\ issuedAt' = Issue(issuedAt, ph.inflight, now)
             /\ progress' = IF hasObserver
                            THEN Append(progress,
                                   reportProgress(results \o ph.phaseResults,
                                                  config, startTime, now))
                            ELSE progress
    /\ UNCHANGED << config, observerVars, pc, failure, results, returned,
                    aliasVars, other,
                    driverVars, phaseStart, phaseCount, phases,
                    pauses, outOfOrder, semVars, logVars, clockVars, startTime,
                    endTime, wakeAt >>

\* The transport settles the in-flight request idx, with any outcome.
TransportResolves(idx) ==
    /\ pc = "phase"
    /\ idx \in inflight
    /\ \E o \in Outcomes :
         LET ph == CompleteRequest(PhaseState, phaseStart, idx, o)
         IN  /\ permits' = ph.permits
             /\ waitQueue' = ph.waitQueue
             /\ inflight' = ph.inflight
             /\ phaseResults' = ph.phaseResults
             /\ dispatched' = ph.dispatched
             /\ issuedAt' = Issue(issuedAt, ph.inflight, now)
    /\ UNCHANGED << config, observerVars, pc, failure, results, returned,
                    aliasVars, other,
                    driverVars, phaseStart, phaseCount, progress, phases,
                    pauses, outOfOrder, semVars, logVars, clockVars, startTime,
                    endTime, wakeAt >>

\* The transport settles one in-flight request.
Complete == \E idx \in inflight : TransportResolves(idx)

\* this.options.onProgress(...) throws at this invocation; reportProgress
\* has no try/catch, so the Error leaves the pattern and run() rethrows it
ObserverThrows(observed, at, invocation) == observed /\ invocation = at

\* makeConcurrentRequests returns its sorted results; the pattern appends
\* them to the run log, reports progress and goes on, unless onProgress
\* threw.
AfterPhase ==
    /\ pc = "phase"
    /\ PhaseSettled(PhaseState, phaseCount)
    /\ currentConcurrency >= -RampFloor
    /\ LET res == results \o SortByIndex(phaseResults)
       IN  /\ results' = res
           /\ progress' = IF hasObserver
                          THEN Append(progress,
                                      reportProgress(res, config, startTime,
                                                     now))
                          ELSE progress
           /\ outOfOrder' = (outOfOrder \/ SortByIndex(phaseResults) # phaseResults)
           /\ IF ObserverThrows(hasObserver, throwsAt, Len(progress) + 1)
              THEN Proceed(ToFail(ObserverError), res, startTime)
              ELSE Proceed(AfterPhaseOf(config, batch, currentConcurrency,
                                        requestIndex, phaseCount),
                           res, startTime)
    /\ UNCHANGED << config, observerVars, logRef, other, semVars, logVars,
                    clockVars, startTime >>

\* The timer of sleep() fires.
Wake ==
    /\ pc = "sleep"
    /\ Proceed(AfterSleepOf(config, batch, currentConcurrency, requestIndex),
               results, startTime)
    /\ UNCHANGED << config, observerVars, results, logRef, other, progress,
                    outOfOrder, semVars, logVars, clockVars, startTime >>

Next == Construct \/ RunStart \/ Complete \/ AfterPhase \/ Wake

Spec == Init /\ [][Next]_vars

-----------------------------------------------------------------------------
(* SpecLive: runs in which what can happen does happen.  The event loop    *)
(* runs a continuation that is ready (Construct, RunStart, AfterPhase), a  *)
(* timer that was set fires (Wake), and every call handed to the transport *)
(* is settled at some time (TransportResolves).                            *)

\* every pattern with 1 and with 3 requests under 2 permits, and ramps from
\* 1 to 2 and from 2 to 3 with an absent, a positive, a zero and a negative
\* step
LiveConfigs ==
    { Config(TRUE, 2, n, 0, 0, DefaultTimeout, p, NoRampUp) :
        n \in { 1, 3 }, p \in (Patterns \ { "ramp-up" }) \cup { NoPattern } }
    \cup { Config(TRUE, 1, 3, 0, 0, DefaultTimeout, "ramp-up", r) :
             r \in { RampUp(1, 2, 100, FALSE, 0), RampUp(1, 2, 100, TRUE, 1),
                     RampUp(1, 2, 100, TRUE, 0), RampUp(1, 2, 100, TRUE, -1),
                     RampUp(2, 3, 100, TRUE, -1) } }

\* the request indices of those runs
LiveIndices == UNION { 0..(cfg.totalRequests - 1) : cfg \in LiveConfigs }

InitLive ==
    /\ config \in LiveConfigs
    /\ hasObserver \in BOOLEAN
    /\ throwsAt = 0
    /\ pc = "init"
    /\ latency = 0
    /\ Idle

\* AfterPhase is enabled: Promise.all of the phase has resolved
AfterPhaseReady ==
    /\ pc = "phase"
    /\ PhaseSettled(PhaseState, phaseCount)
    /\ currentConcurrency >= -RampFloor

\* Weak fairness of each step.  For AfterPhase and Wake it is written out,
\* WF_vars(A) being []<>~ENABLED <<A>>_vars \/ []<><<A>>_vars, with the
\* condition under which the step is enabled; both steps change pc or
\* phases whenever they are taken.
Fairness ==
    /\ WF_vars(Construct)
    /\ WF_vars(RunStart)
    /\ \A i \in LiveIndices : WF_vars(TransportResolves(i))
    /\ ([]<>(~AfterPhaseReady) \/ []<><<AfterPhase>>_vars)
    /\ ([]<>(pc # "sleep") \/ []<><<Wake>>_vars)

SpecLive == InitLive /\ [][Next]_vars /\ Fairness

-----------------------------------------------------------------------------
(* SpecObs: the runs of Spec with an observer that returns or, at one of   *)
(* its invocations, throws.                                                *)

\* every pattern with 1 and with 3 requests under 2 permits, and a ramp
\* from 1 to 2
ObsConfigs ==
    { Config(TRUE, 2, n, 0, 0, DefaultTimeout, p, NoRampUp) :
        n \in { 1, 3 }, p \in (Patterns \ { "ramp-up" }) \cup { NoPattern } }
    \cup { Config(TRUE, 1, 3, 0, 0, DefaultTimeout, "ramp-up",
                  RampUp(1, 2, 100, TRUE, 1)) }

InitObs ==
    /\ config \in ObsConfigs
    /\ hasObserver \in BOOLEAN
    /\ throwsAt \in 0..MaxThrowAt
    /\ pc = "init"
    /\ latency = 0
    /\ Idle

SpecObs == InitObs /\ [][Next]_vars

-----------------------------------------------------------------------------
(* SpecRerun: run() is called again on a StressTester whose run() has      *)
(* returned.  The histories (dispatched, phases, pauses, progress) go on   *)
(* over the runs.                                                          *)

\* every pattern with 2 requests
RerunConfigs ==
    { Config(TRUE, 2, 2, 0, 0, DefaultTimeout, p, NoRampUp) :
        p \in (Patterns \ { "ramp-up" }) \cup { NoPattern } }
    \cup { Config(TRUE, 1, 2, 0, 0, DefaultTimeout, "ramp-up",
                  RampUp(1, 2, 100, TRUE, 1)) }

InitRerun ==
    /\ config \in RerunConfigs
    /\ hasObserver = FALSE
    /\ throwsAt = 0
    /\ pc = "init"
    /\ latency = 0
    /\ Idle

\* run() on a tester whose previous run() has returned
RunAgain ==
    /\ pc = "done"
    /\ Len(returned) < MaxRuns
    /\ startTime' = now
    /\ results' = << >>
    /\ logRef' = initializeTest(logRef)
    /\ Proceed(StartPattern(config), << >>, now)
    /\ UNCHANGED << config, observerVars, other, progress, outOfOrder, semVars,
                    logVars, clockVars >>

NextRerun == Next \/ RunAgain

SpecRerun == InitRerun /\ [][NextRerun]_vars

-----------------------------------------------------------------------------
(* SpecOverlap: run() is called a second time on a StressTester while its  *)
(* first run() is suspended in a phase or a sleep.  Both invocations work  *)
(* on the same fields this.results and this.startTime.  The first is       *)
(* followed request by request as in Spec; of the second, `other` holds    *)
(* where its pattern stands, each of its phases resolves in one step, the  *)
(* transport answering all requests of the phase alike, and its calls are  *)
(* not entered in the histories.                                           *)

\* every pattern with 2 requests, and batches of one request
OverlapConfigs ==
    { Config(TRUE, 2, 2, 0, 0, DefaultTimeout, p, NoRampUp) :
        p \in (Patterns \ { "ramp-up" }) \cup { NoPattern } }
    \cup { Config(TRUE, 1, 2, 0, 0, DefaultTimeout, "sustained", NoRampUp),
           Config(TRUE, 1, 2, 0, 0, DefaultTimeout, "ramp-up",
                  RampUp(1, 2, 100, TRUE, 1)) }

OtherOutcomes == { Response(200, 12, 230), Response(500, 30, 0) }

InitOverlap ==
    /\ config \in OverlapConfigs
    /\ hasObserver = FALSE
    /\ throwsAt = 0
    /\ pc = "init"
    /\ latency = 0
    /\ Idle

\* the second invocation goes on to what its pattern decided: a phase, a
\* sleep, or `return this.finalizeTest()` on this.results as it now is
OtherProceed(d, res) ==
    IF d.kind = "done"
    THEN /\ returned' = Append(returned, finalizeTest(res, config, startTime', now))
         /\ returnedRef' = Append(returnedRef, logRef')
         /\ endTime' = now
         /\ other' = [ pc |-> "done", d |-> d, returnedAs |-> Len(returned) + 1 ]
    ELSE /\ other' = [ pc |-> d.kind, d |-> d, returnedAs |-> 0 ]
         /\ UNCHANGED << returned, returnedRef, endTime >>

\* run() is called while the first run() is suspended: initializeTest, then
\* executePattern up to its first suspension
OtherRun ==
    /\ pc \in { "phase", "sleep" }
    /\ other.pc = "idle"
    /\ startTime' = now
    /\ results' = << >>
    /\ logRef' = initializeTest(logRef)
    /\ OtherProceed(StartPattern(config), << >>)
    /\ UNCHANGED << config, observerVars, pc, failure, driverVars, phaseVars,
                    progress, phases, pauses, outOfOrder, semVars, logVars,
                    clockVars, issuedAt, wakeAt >>

\* makeConcurrentRequests of the second invocation resolves: it pushes the
\* Results of its phase to this.results and goes on
OtherPhaseDone ==
    /\ other.pc = "phase"
    /\ \E o \in OtherOutcomes :
         LET d == other.d
             res == results \o [ k \in 1..Max(0, d.count) |->
                                   makeRequest(d.startIndex + k - 1, o) ]
         IN  /\ results' = res
             /\ UNCHANGED << logRef, startTime >>
             /\ OtherProceed(AfterPhaseOf(config, d.batch, d.currentConcurrency,
                                          d.requestIndex, d.count), res)
    /\ UNCHANGED << config, observerVars, pc, failure, driverVars, phaseVars,
                    progress, phases, pauses, outOfOrder, semVars, logVars,
                    clockVars, issuedAt, wakeAt >>

\* the timer of the second invocation's sleep() fires
OtherWake ==
    /\ other.pc = "sleep"
    /\ UNCHANGED << results, logRef, startTime >>
    /\ OtherProceed(AfterSleepOf(config, other.d.batch,
                                 other.d.currentConcurrency,
                                 other.d.requestIndex), results)
    /\ UNCHANGED << config, observerVars, pc, failure, driverVars, phaseVars,
                    progress, phases, pauses, outOfOrder, semVars, logVars,
                    clockVars, issuedAt, wakeAt >>

NextOverlap == Next \/ OtherRun \/ OtherPhaseDone \/ OtherWake

SpecOverlap == InitOverlap /\ [][NextOverlap]_vars

-----------------------------------------------------------------------------
(* SpecSched: the transport answers the requests in dispatch order and    *)
(* every request of a run with the same outcome; a phase is one step.      *)

\* the oldest in-flight request is settled
DrainOne(ph, startIndex, o) ==
    LET idx == CHOOSE i \in ph.inflight : \A j \in ph.inflight : i <= j
    IN  CompleteRequest(ph, startIndex, idx, o)

\* n requests are settled, one after the other
RECURSIVE DrainAll(_, _, _, _)
DrainAll(ph, startIndex, o, n) ==
    IF n <= 0 THEN ph
    ELSE IF n = 1 THEN DrainOne(ph, startIndex, o)
    ELSE LET left == DrainAll(ph, startIndex, o, n \div 2)
         IN  After(left, DrainAll(left, startIndex, o, n - (n \div 2)))

PhaseDrain ==
    /\ pc = "phase"
    /\ inflight # {}
    /\ \E o \in Outcomes :
         /\ results # << >> =>
              makeRequest(results[1].index, o) = results[1]
         /\ LET ph == DrainAll(PhaseState, phaseStart, o, phaseCount)
            IN  /\ permits' = ph.permits
                /\ waitQueue' = ph.waitQueue
                /\ inflight' = ph.inflight
                /\ phaseResults' = ph.phaseResults
                /\ dispatched' = ph.dispatched
                /\ issuedAt' = Issue(issuedAt, ph.inflight, now)
    /\ UNCHANGED << config, observerVars, pc, failure, results, returned,
                    aliasVars, other,
                    driverVars, phaseStart, phaseCount, progress, phases,
                    pauses, outOfOrder, semVars, logVars, clockVars, startTime,
                    endTime, wakeAt >>

NextSched == Construct \/ RunStart \/ PhaseDrain \/ AfterPhase \/ Wake

SpecSched == InitSched /\ [][NextSched]_vars

-----------------------------------------------------------------------------
(* SpecTimed: the clock runs.  Every transport call takes exactly          *)
(* `latency`, a timer fires when its time has come, and the driver's own   *)
(* steps take no time.                                                     *)

\* the configurations of Spec without ramp-up, and a spike of 6 requests
\* whose first phase sends 2 of them under a limiter built from
\* floor(3 * 0.3) = 0
TimedConfigs ==
    { cfg \in RunConfigs : cfg.pattern # "ramp-up" }
    \cup { Config(TRUE, 3, 6, 0, 0, DefaultTimeout, "spike", NoRampUp) }

\* a response or a transport failure, known after `latency`
TimedOutcomes ==
    { Response(200, latency, 230),
      Failure("ECONNREFUSED", "connect ECONNREFUSED", 0, "", latency) }

InitTimed ==
    /\ config \in TimedConfigs
    /\ hasObserver = TRUE
    /\ throwsAt = 0
    /\ pc = "init"
    /\ latency \in 1..MaxLatency
    /\ Idle

\* The transport settles a request that was sent `latency` ago.
CompleteTimed ==
    /\ pc = "phase"
    /\ \E idx \in inflight, o \in TimedOutcomes :
         /\ issuedAt[idx] + latency = now
         /\ LET ph == CompleteRequest(PhaseState, phaseStart, idx, o)
            IN  /\ permits' = ph.permits
                /\ waitQueue' = ph.waitQueue
                /\ inflight' = ph.inflight
                /\ phaseResults' = ph.phaseResults
                /\ dispatched' = ph.dispatched
                /\ issuedAt' = Issue(issuedAt, ph.inflight, now)
    /\ UNCHANGED << config, observerVars, pc, failure, results, returned,
                    aliasVars, other,
                    driverVars, phaseStart, phaseCount, progress, phases,
                    pauses, outOfOrder, semVars, logVars, clockVars, startTime,
                    endTime, wakeAt >>

\* The timer of sleep() fires, not before its time.
TimerFires == now >= wakeAt /\ Wake

\* Nothing can happen at the present time: the clock moves on to the next
\* moment at which a request is settled or the timer fires.
Advance ==
    /\ \/ /\ pc = "phase"
          /\ inflight # {}
          /\ \A i \in inflight : issuedAt[i] + latency > now
          /\ \E i \in inflight :
               /\ \A j \in inflight : issuedAt[i] <= issuedAt[j]
               /\ now' = issuedAt[i] + latency
       \/ /\ pc = "sleep"
          /\ now < wakeAt
          /\ now' = wakeAt
    /\ UNCHANGED << config, observerVars, pc, failure, results, returned,
                    aliasVars, other,
                    driverVars, phaseVars, progress, phases, pauses,
                    outOfOrder, semVars, logVars, latency, startTime, endTime,
                    issuedAt, wakeAt >>

NextTimed ==
    Construct \/ RunStart \/ CompleteTimed \/ AfterPhase \/ TimerFires
        \/ Advance

SpecTimed == InitTimed /\ [][NextTimed]_vars

-----------------------------------------------------------------------------
(* SpecLog: the Request Executor and the aggregator on their own.  A log   *)
(* is built request by request, the transport free to answer with any      *)
(* status or to fail in any way, or it is one of a family of longer logs;  *)
(* then the statistics are computed from it, once or twice.                *)

\* Everything the transport can do with a request: answer with a status,
\* or reject with an error that has a code formatError knows, another
\* code, no code but a response, a message only, or nothing at all.
ExecOutcomes ==
    { Response(st, rt, 10 * rt) :
        st \in { 200, 204, 301, 404, 500 }, rt \in { 0, 7 } }
    \cup { Failure(c, "socket error", 0, "", 3) : c \in DOMAIN codeMessages }
    \cup { Failure("ERR_FR_TOO_MANY_REDIRECTS", "Maximum redirects exceeded",
                   0, "", 9),
           Failure("ERR_BAD_RESPONSE", "", 502, "Bad Gateway", 5),
           Failure("", "", 502, "Bad Gateway", 5),
           Failure("", "socket hang up", 0, "", 0),
           Failure("", "Unknown error", 0, "", 0),
           Failure("", "", 0, "", 0) }

\* What the transport did with the requests of a longer log: request k
\* took (a * k + b) % m; every 7th one timed out, every 5th one got a 503.
SeedAnswers(len, a, b, m) ==
    [ k \in 1..len |->
        IF k % 7 = 3
        THEN Failure("ETIMEDOUT", "timeout exceeded", 0, "", (a * k + b) % m)
        ELSE Response(IF k % 5 = 0 THEN 503 ELSE 200, (a * k + b) % m, 100) ]

SeedLens == { 1, 20, 21, 100, 101, 104 }

\* ascending, descending, repeating with zeros, constant, all zero
SeedShapes ==
    { << 1, 0, 1000 >>, << -1, 0, 1000 >>, << 1, 0, 50 >>, << 7, 0, 11 >>,
      << 0, 5, 10 >>, << 0, 0, 1 >> }

Seeds ==
    { SeedAnswers(len, sh[1], sh[2], sh[3]) : len \in SeedLens,
                                              sh \in SeedShapes }
    \cup { << >> }

\* Date.now() at initializeTest, and the time between initializeTest and
\* reportProgress or finalizeTest
LogStart == 1000
LogDurations == { 0, 1500 }

InitLog ==
    /\ config = Config(TRUE, 1, 1, 0, 0, DefaultTimeout, "burst", NoRampUp)
    /\ hasObserver = TRUE
    /\ throwsAt = 0
    /\ pc = "log"
    /\ failure = NoFailure
    /\ answers \in Seeds
    /\ results = [ k \in 1..Len(answers) |-> makeRequest(k - 1, answers[k]) ]
    /\ returned = << >>
    /\ logRef = 0
    /\ returnedRef = << >>
    /\ other = NoOther
    /\ batch = 0
    /\ currentConcurrency = 0
    /\ requestIndex = 0
    /\ phaseStart = 0
    /\ phaseCount = 0
    /\ phaseResults = << >>
    /\ permits = 0
    /\ waitQueue = << >>
    /\ inflight = {}
    /\ dispatched = << >>
    /\ progress = << >>
    /\ phases = << >>
    /\ pauses = << >>
    /\ outOfOrder = FALSE
    /\ holding = {}
    /\ suspended = << >>
    /\ lastResumed = 0
    /\ now \in { LogStart + d : d \in LogDurations }
    /\ latency = 0
    /\ startTime = LogStart
    /\ endTime = 0
    /\ issuedAt = << >>
    /\ wakeAt = 0

\* makeRequest(index) for the next index; the Result is pushed
Request ==
    /\ pc = "log"
    /\ Len(results) < MaxLog
    /\ \E o \in ExecOutcomes :
         /\ results' = Append(results, makeRequest(Len(results), o))
         /\ answers' = Append(answers, o)
    /\ UNCHANGED << config, observerVars, pc, failure, returned, aliasVars,
                    other, driverVars,
                    phaseVars, progress, phases, pauses, outOfOrder, semVars,
                    timeVars >>

\* finalizeTest() on the log as it stands
Aggregate ==
    /\ pc \in { "log", "aggregated" }
    /\ Len(returned) < MaxAggregations
    /\ LET fin == finalizeTest(results, config, startTime, now)
       IN  /\ results' = fin.requests
           /\ returned' = Append(returned, fin)
           /\ returnedRef' = Append(returnedRef, logRef)
    /\ endTime' = now
    /\ pc' = "aggregated"
    /\ UNCHANGED << config, observerVars, logRef, other, failure, driverVars,
                    phaseVars,
                    progress, phases, pauses, outOfOrder, semVars, logVars,
                    clockVars, startTime, issuedAt, wakeAt >>

\* reportProgress() on the log as it stands, before finalizeTest
Report ==
    /\ pc = "log"
    /\ Len(progress) < MaxReports
    /\ progress' = IF hasObserver
                   THEN Append(progress,
                               reportProgress(results, config, startTime, now))
                   ELSE progress
    /\ UNCHANGED << config, observerVars, pc, failure, results, returned,
                    aliasVars, other,
                    driverVars, phaseVars, phases, pauses, outOfOrder, semVars,
                    logVars, timeVars >>

NextLog == Request \/ Report \/ Aggregate

SpecLog == InitLog /\ [][NextLog]_vars

-----------------------------------------------------------------------------
(* SpecSem: one ConcurrencySemaphore, callers 1..NumCallers that call      *)
(* acquire() and, once resumed, release() at arbitrary moments.            *)

Callers == 1..NumCallers

InitSem ==
    /\ config = Config(TRUE, 1, 1, 0, 0, DefaultTimeout, "burst", NoRampUp)
    /\ hasObserver = FALSE
    /\ throwsAt = 0
    /\ pc = "semaphore"
    /\ failure = NoFailure
    /\ results = << >>
    /\ returned = << >>
    /\ logRef = 0
    /\ returnedRef = << >>
    /\ other = NoOther
    /\ batch = 0
    /\ currentConcurrency = 0
    /\ requestIndex = 0
    /\ phaseStart = 0
    /\ phaseCount = 0
    /\ phaseResults = << >>
    /\ \E p \in -1..MaxPermits : permits = SemNew(p).permits
    /\ waitQueue = << >>
    /\ inflight = {}
    /\ dispatched = << >>
    /\ progress = << >>
    /\ phases = << >>
    /\ pauses = << >>
    /\ outOfOrder = FALSE
    /\ holding = {}
    /\ suspended = << >>
    /\ lastResumed = 0
    /\ now = 0
    /\ latency = 0
    /\ startTime = 0
    /\ endTime = 0
    /\ issuedAt = << >>
    /\ wakeAt = 0
    /\ answers = << >>

\* the sequence s without the elements of the set gone
RECURSIVE Without(_, _)
Without(s, gone) ==
    IF s = << >> THEN << >>
    ELSE IF Head(s) \in gone THEN Without(Tail(s), gone)
    ELSE << Head(s) >> \o Without(Tail(s), gone)

\* caller c calls acquire()
CallerAcquire ==
    /\ pc = "semaphore"
    /\ \E c \in Callers \ (holding \cup Range(suspended)) :
         LET a == SemAcquire([ permits |-> permits, waitQueue |-> waitQueue ], c)
         IN  /\ permits' = a.sem.permits
             /\ waitQueue' = a.sem.waitQueue
             /\ holding' = IF a.granted THEN holding \cup { c } ELSE holding
             /\ suspended' = IF a.granted THEN suspended
                             ELSE Append(suspended, c)
    /\ UNCHANGED << config, observerVars, pc, failure, results, returned,
                    aliasVars, other,
                    driverVars, phaseStart, phaseCount, phaseResults,
                    inflight, dispatched, progress, phases, pauses,
                    outOfOrder, lastResumed, timeVars, logVars >>

\* caller c, holding a permit, calls release()
CallerRelease ==
    /\ pc = "semaphore"
    /\ \E c \in holding :
         LET rel == SemRelease([ permits |-> permits, waitQueue |-> waitQueue ])
         IN  /\ permits' = rel.sem.permits
             /\ waitQueue' = rel.sem.waitQueue
             /\ holding' = (holding \ { c }) \cup Range(rel.resumed)
             /\ suspended' = Without(suspended, Range(rel.resumed))
             /\ lastResumed' = IF rel.resumed = << >> THEN 0
                               ELSE rel.resumed[1]
    /\ UNCHANGED << config, observerVars, pc, failure, results, returned,
                    aliasVars, other,
                    driverVars, phaseStart, phaseCount, phaseResults,
                    inflight, dispatched, progress, phases, pauses,
                    outOfOrder, timeVars, logVars >>

NextSem == CallerAcquire \/ CallerRelease

SpecSem == InitSem /\ [][NextSem]_vars

-----------------------------------------------------------------------------
(* Properties.                                                             *)

Indices(rq) == { rq[k].index : k \in 1..Len(rq) }

\* C1: when run() has returned, the indices of the returned Results are
\* exactly 0..totalRequests-1, each once, for every pattern and every
\* completion order.
C1_IndexSetExact ==
    \A k \in 1..Len(returned) :
        /\ Len(returned[k].requests) = config.totalRequests
        /\ Indices(returned[k].requests) = 0..(config.totalRequests - 1)

\* a ramp-up run that went through several plateaus, one of them settled
\* out of index order, has returned
C1_Witness ==
    /\ pc = "done"
    /\ PatternOf(config) = "ramp-up"
    /\ Len(phases) >= 3
    /\ outOfOrder
    /\ Len(returned) = 1

\* C2: during a phase the number of unresolved makeRequest calls is at most
\* max(1, c) for the c the phase was started with; in a burst run at most
\* Config.concurrency.
C2_InFlightBound ==
    pc = "phase" =>
        /\ Cardinality(inflight) <= Max(1, phases[Len(phases)].concurrency)
        /\ PatternOf(config) = "burst" =>
               Cardinality(inflight) <= config.concurrency

\* a burst with more requests than permits: some requests are settled, the
\* limiter is full and a request still waits
C2_Witness ==
    /\ pc = "phase"
    /\ PatternOf(config) = "burst"
    /\ config.totalRequests > config.concurrency
    /\ Cardinality(inflight) = config.concurrency
    /\ Len(phaseResults) > 0
    /\ waitQueue # << >>

\* C3: a release() while callers are suspended resumes the caller suspended
\* longest and leaves the count of free permits unchanged; an acquire()
\* while a caller is suspended is never granted.
C3_FifoHandOff ==
    [][ suspended # << >> =>
          IF holding \ holding' # {}
          THEN /\ holding' \ holding = { Head(suspended) }
               /\ suspended' = Tail(suspended)
               /\ permits' = permits
          ELSE /\ holding' = holding
               /\ permits' = permits ]_vars

\* a release() has just resumed a caller while two more stay suspended, and
\* another caller is free to call acquire()
C3_Witness ==
    /\ pc = "semaphore"
    /\ lastResumed # 0
    /\ lastResumed \in holding
    /\ Len(suspended) >= 2
    /\ Callers \ (holding \cup Range(suspended)) # {}

\* C4: request failures never abort a pattern: run() fails only before the
\* first dispatch, a phase whose requests are all settled with any outcome
\* goes on, and a run that returns has totalRequests Results.
C4_FailuresNeverAbort ==
    /\ pc = "failed" => dispatched = << >>
    /\ pc = "phase" => (inflight # {} \/ PhaseSettled(PhaseState, phaseCount))
    /\ pc = "done" => /\ Len(results) = config.totalRequests
                      /\ Len(returned[1].requests) = config.totalRequests

\* a run of several phases in which every request failed, some with a
\* status >= 400 and some in the transport, has returned
C4_Witness ==
    /\ pc = "done"
    /\ Len(phases) >= 2
    /\ \A k \in 1..Len(results) : IsError(results[k])
    /\ \E k \in 1..Len(results) : results[k].error # NoError
    /\ \E k \in 1..Len(results) : results[k].statusCode >= 400

\* C5: the transport is invoked at most once for an index, and exactly once
\* for each index of 0..totalRequests-1 when the run has returned.
C5_NoRetry ==
    /\ \A i, j \in 1..Len(dispatched) :
           dispatched[i] = dispatched[j] => i = j
    /\ pc = "done" => /\ Len(dispatched) = config.totalRequests
                      /\ Range(dispatched) = 0..(config.totalRequests - 1)

\* a run with a refused and a timed-out request has returned
C5_Witness ==
    /\ pc = "done"
    /\ \E k \in 1..Len(results) :
           results[k].error = "ECONNABORTED: Connection aborted"
    /\ \E k \in 1..Len(results) :
           results[k].error = "ECONNREFUSED: Connection refused"

\* C6: the Result sequence run() returns is strictly ascending in index.
C6_Ascending ==
    \A n \in 1..Len(returned) :
        \A k \in 1..(Len(returned[n].requests) - 1) :
            returned[n].requests[k].index < returned[n].requests[k + 1].index

\* a spike run of two phases, one of which settled out of index order, has
\* returned
C6_Witness ==
    /\ pc = "done"
    /\ PatternOf(config) = "spike"
    /\ Len(phases) = 2
    /\ outOfOrder

\* the ramp-up parameters C7 names as invalid
RampUpRejected(r) ==
    \/ ~r.present
    \/ r.startConcurrency <= 0
    \/ r.endConcurrency <= r.startConcurrency
    \/ r.rampUpTime <= 0

\* C7: a ramp-up run with invalid ramp-up parameters fails with no
\* transport call, no progress callback, no Result and no result object.
C7_RampUpValidationFirst ==
    (PatternOf(config) = "ramp-up" /\ RampUpRejected(config.rampUp)
        /\ pc \notin { "init", "ready", "rejected" }) =>
        /\ pc = "failed"
        /\ failure # NoFailure
        /\ dispatched = << >>
        /\ phases = << >>
        /\ progress = << >>
        /\ results = << >>
        /\ returned = << >>

\* run() of a tester with an observer and endConcurrency <= startConcurrency
\* has failed
C7_Witness ==
    /\ pc = "failed"
    /\ hasObserver
    /\ config.rampUp.present
    /\ config.rampUp.startConcurrency > 0
    /\ config.rampUp.endConcurrency <= config.rampUp.startConcurrency

\* C8 (as claimed): the constructor accepts a configuration exactly when
\* concurrency > 0, timeout > 0 and (totalRequests > 0 or duration > 0).
C8_ConstructIffInvariants ==
    (pc # "init" /\ config.url) =>
        ((pc # "rejected") <=>
            /\ config.concurrency > 0
            /\ config.timeout > 0
            /\ (config.totalRequests > 0 \/ config.duration > 0))

\* "1000 time-units"
IsMs(pause, n) == pause.num = n * pause.den

\* C9 (as claimed): the first spike phase sends floor(totalRequests*0.8)
\* requests, the second the rest.
C9_LargerPhaseFirst ==
    PatternOf(config) = "spike" =>
        /\ Len(phases) >= 1 =>
             /\ phases[1].count = FloorDiv(config.totalRequests * 8, 10)
             /\ phases[1].concurrency = FloorDiv(config.concurrency * 3, 10)
        /\ Len(phases) >= 2 =>
             /\ phases[2].count =
                  config.totalRequests - FloorDiv(config.totalRequests * 8, 10)
             /\ phases[2].concurrency = config.concurrency

\* C9 (amended): the first spike phase sends totalRequests -
\* floor(totalRequests*0.8) requests under a limiter built from
\* floor(concurrency*0.3); after it has resolved and the pause of 1000 was
\* taken, the second phase sends floor(totalRequests*0.8) requests at full
\* concurrency; 20 then 80 for totalRequests = 100.
C9_SmallerPhaseFirst ==
    PatternOf(config) = "spike" =>
        /\ Len(phases) <= 2
        /\ Len(phases) >= 1 =>
             /\ phases[1].startIndex = 0
             /\ phases[1].count =
                  config.totalRequests - FloorDiv(config.totalRequests * 8, 10)
             /\ phases[1].concurrency = FloorDiv(config.concurrency * 3, 10)
             /\ config.totalRequests = 100 => phases[1].count = 20
        /\ (Len(phases) = 1 /\ pc = "phase") =>
             permits + Cardinality(inflight)
               = Max(1, FloorDiv(config.concurrency * 3, 10))
        /\ Len(phases) = 2 =>
             /\ phases[2].startIndex = phases[1].count
             /\ phases[2].count = FloorDiv(config.totalRequests * 8, 10)
             /\ phases[2].concurrency = config.concurrency
             /\ config.totalRequests = 100 => phases[2].count = 80
             /\ phases[2].resolvedBefore = phases[1].count
             /\ Len(pauses) = 1
             /\ IsMs(pauses[1], 1000)
             /\ pauses[1].phasesBefore = 1
             /\ pauses[1].resolvedBefore = phases[1].count

\* a spike run of 100 requests has returned
C9_Witness ==
    /\ pc = "done"
    /\ PatternOf(config) = "spike"
    /\ config.totalRequests = 100
    /\ Len(phases) = 2
    /\ Len(results) = 100

\* the ramp of C10 with enough requests for every plateau has returned
DocRampDone ==
    /\ pc = "done"
    /\ PatternOf(config) = "ramp-up"
    /\ config.rampUp = DocRampUp
    /\ config.totalRequests >= 550

\* C10 (as claimed): that run has exactly 9 plateaus, a pause of 1000
\* between consecutive ones.
C10_NinePlateaus ==
    DocRampDone =>
        /\ Len(phases) = 9
        /\ Len(pauses) = Len(phases) - 1
        /\ \A k \in 1..Len(pauses) : IsMs(pauses[k], 1000)

\* C10 (amended): that run goes through the 10 plateaus 10, 20, ..., 100
\* with 9 pauses of 1000, one between each two of them, and then, without
\* a pause, through plateaus at 100 until totalRequests is reached.
C10_TenPlateaus ==
    DocRampDone =>
        /\ Len(phases) = 10 + CeilDiv(config.totalRequests - 550, 100)
        /\ \A k \in 1..10 : /\ phases[k].concurrency = 10 * k
                            /\ phases[k].count = 10 * k
        /\ \A k \in 11..Len(phases) : phases[k].concurrency = 100
        /\ Len(pauses) = 9
        /\ \A k \in 1..9 : /\ IsMs(pauses[k], 1000)
                           /\ pauses[k].phasesBefore = k

\* the ramp of C10 with 1000 requests has returned
C10_Witness ==
    /\ DocRampDone
    /\ config.totalRequests = 1000
    /\ Len(results) = 1000

\* a ramp-up run whose parameters passed validateRampUpConfig
RampRun ==
    /\ PatternOf(config) = "ramp-up"
    /\ config.rampUp.present
    /\ validateRampUpConfig(config.rampUp) = NoFailure

\* C11 (as claimed): the plateau at endConcurrency is the last phase of a
\* ramp-up run: no plateau is dispatched after it.
C11_StopsAfterEndPlateau ==
    RampRun =>
        \A k \in 1..Len(phases) :
            phases[k].concurrency = config.rampUp.endConcurrency
                => k = Len(phases)

\* C11 (amended): a ramp-up run returns only when totalRequests requests
\* have been sent; every plateau sends min(its concurrency, remaining)
\* requests, and a plateau at endConcurrency that leaves requests unsent is
\* followed, without a pause, by another plateau at endConcurrency.
C11_StopsWhenExhausted ==
    RampRun =>
        /\ pc = "done" =>
             /\ Len(results) = config.totalRequests
             /\ Len(dispatched) = config.totalRequests
        /\ \A k \in 1..Len(phases) :
             /\ phases[k].count =
                  Min(phases[k].concurrency,
                      config.totalRequests - phases[k].startIndex)
             /\ (k < Len(phases)
                   /\ phases[k].concurrency = config.rampUp.endConcurrency) =>
                  /\ phases[k + 1].concurrency = config.rampUp.endConcurrency
                  /\ phases[k + 1].startIndex < config.totalRequests
                  /\ \A j \in 1..Len(pauses) : pauses[j].phasesBefore # k
        /\ pc = "sleep" =>
             phases[Len(phases)].concurrency < config.rampUp.endConcurrency

\* a ramp-up run has returned after two plateaus at endConcurrency, the
\* second one sending the requests the first left over
C11_Witness ==
    /\ RampRun
    /\ pc = "done"
    /\ Len(phases) >= 3
    /\ phases[Len(phases) - 1].concurrency = config.rampUp.endConcurrency
    /\ phases[Len(phases)].concurrency = config.rampUp.endConcurrency
    /\ Len(results) = config.totalRequests

\* C12: a sustained run has ceil(totalRequests / concurrency) phases; phase
\* k starts at index (k-1)*concurrency, once every earlier request has
\* resolved, and sends min(concurrency, remaining) requests; a configured
\* delay is slept once after each phase but the last, and nothing is slept
\* without one.
C12_SustainedPhases ==
    (PatternOf(config) = "sustained"
        /\ pc \in { "phase", "sleep", "done" }) =>
        LET c == config.concurrency
            n == config.totalRequests
        IN  /\ Len(phases) <= CeilDiv(n, c)
            /\ pc = "done" => Len(phases) = CeilDiv(n, c)
            /\ \A k \in 1..Len(phases) :
                 /\ phases[k].startIndex = (k - 1) * c
                 /\ phases[k].count = Min(c, n - (k - 1) * c)
                 /\ phases[k].count >= 1
                 /\ phases[k].concurrency = c
                 /\ phases[k].resolvedBefore = (k - 1) * c
            /\ IF config.delay = 0
               THEN pauses = << >>
               ELSE /\ \A j \in 1..Len(pauses) :
                         /\ IsMs(pauses[j], config.delay)
                         /\ pauses[j].phasesBefore = j
                         /\ j < CeilDiv(n, c)
                    /\ pc = "sleep" => Len(pauses) = Len(phases)
                    /\ pc # "sleep" => Len(pauses) = Len(phases) - 1

\* a sustained run with a delay has returned after several phases, the last
\* of them smaller than the others
C12_Witness ==
    /\ PatternOf(config) = "sustained"
    /\ pc = "done"
    /\ config.delay # 0
    /\ Len(phases) >= 2
    /\ phases[Len(phases)].count < config.concurrency
    /\ Len(pauses) = Len(phases) - 1

\* C13: a wave run makes 3 makeConcurrentRequests calls whatever
\* totalRequests >= 1 is: the first two for floor(totalRequests/3) requests,
\* the third for the rest, all with Config.concurrency, each once the
\* earlier waves have resolved; 2000 is slept after the first and after the
\* second wave and never after the third.
C13_WaveThreePhases ==
    (PatternOf(config) = "wave" /\ pc \in { "phase", "sleep", "done" }) =>
        LET n == config.totalRequests
            w == FloorDiv(n, 3)
        IN  /\ Len(phases) <= 3
            /\ pc = "done" => /\ Len(phases) = 3
                              /\ Len(pauses) = 2
                              /\ Len(results) = n
            /\ \A k \in 1..Len(phases) :
                 /\ phases[k].startIndex = (k - 1) * w
                 /\ phases[k].count = IF k < 3 THEN w ELSE n - 2 * w
                 /\ phases[k].concurrency = config.concurrency
                 /\ phases[k].resolvedBefore = (k - 1) * w
            /\ Len(pauses) <= 2
            /\ \A j \in 1..Len(pauses) :
                 /\ IsMs(pauses[j], 2000)
                 /\ pauses[j].phasesBefore = j
            /\ pc = "sleep" => Len(pauses) = Len(phases)
            /\ pc = "phase" => Len(pauses) = Len(phases) - 1

\* a wave run of fewer than 3 requests has returned: its first two waves
\* were empty
C13_Witness ==
    /\ PatternOf(config) = "wave"
    /\ pc = "done"
    /\ config.totalRequests < 3
    /\ Len(phases) = 3
    /\ phases[1].count = 0
    /\ phases[3].count = config.totalRequests
    /\ Len(pauses) = 2

\* C14: in a sustained run with concurrency 1 and no delay, where every
\* transport call takes `latency`, at most one request is in flight at any
\* moment, a request is sent only when every earlier one has resolved, and
\* the duration run() returns, endTime - startTime, is at least
\* totalRequests * latency.
C14_SerialDuration ==
    (PatternOf(config) = "sustained" /\ config.concurrency = 1
        /\ config.delay = 0) =>
        /\ Cardinality(inflight) <= 1
        /\ \A k \in 1..Len(phases) : phases[k].resolvedBefore = k - 1
        /\ pc = "done" =>
             /\ returned[1].duration >= config.totalRequests * latency
             /\ returned[1].duration = endTime - startTime
             /\ endTime - startTime >= config.totalRequests * latency

\* such a run of three or more requests, each taking more than one
\* time-unit, has returned
C14_Witness ==
    /\ PatternOf(config) = "sustained"
    /\ config.concurrency = 1
    /\ config.delay = 0
    /\ config.totalRequests >= 3
    /\ latency >= 2
    /\ pc = "done"
    /\ returned[1].duration >= 6

\* C15: every Result of makeRequest has a statusCode or an error and never
\* both: a response, whatever its status, gives its status and no error; a
\* failure, whatever the error object holds, gives an error (never the
\* empty string) and no statusCode.
C15_ExactlyOneOutcomeField ==
    /\ Len(answers) = Len(results)
    /\ \A k \in 1..Len(results) :
         /\ (results[k].statusCode # NoStatus) # (results[k].error # NoError)
         /\ answers[k].kind = "response" =>
              /\ results[k].statusCode = answers[k].status
              /\ results[k].error = NoError
         /\ answers[k].kind = "failure" =>
              /\ results[k].statusCode = NoStatus
              /\ results[k].error # NoError

\* the log holds the Result of a response with status >= 400 and the
\* Result of an error that had neither code, response nor message
C15_Witness ==
    /\ pc = "log"
    /\ \E k \in 1..Len(results) :
         answers[k].kind = "response" /\ answers[k].status >= 400
    /\ \E k \in 1..Len(results) :
         answers[k] = Failure("", "", 0, "", 0)

\* the elapsed times > 0 of a log, in log order
PositiveTimes(rq) ==
    Pluck(SelectSeq(rq, LAMBDA r : r.responseTime > 0), "responseTime")

\* the number of samples that are at most v
AtMost(samples, v) == Cardinality({ k \in 1..Len(samples) : samples[k] <= v })

\* v is the nearest-rank p-th percentile of the samples: 0 without samples,
\* else the least sample that at least p% of the samples do not exceed
IsNearestRank(samples, p, v) ==
    IF Len(samples) = 0 THEN v = 0
    ELSE /\ v \in Range(samples)
         /\ AtMost(samples, v) * 100 >= p * Len(samples)
         /\ \A u \in Range(samples) :
                u < v => AtMost(samples, u) * 100 < p * Len(samples)

\* C16: p50, p95 and p99 are the nearest-rank percentiles of the elapsed
\* times > 0 of the log (0 when there is none), and the Results with
\* elapsed time 0 change neither them nor the minimum, maximum and average.
C16_NearestRank ==
    \A c \in 1..Len(returned) :
        LET st == returned[c].stats
            times == PositiveTimes(returned[c].requests)
            n == Len(times)
        IN  /\ IsNearestRank(times, 50, st.p50ResponseTime)
            /\ IsNearestRank(times, 95, st.p95ResponseTime)
            /\ IsNearestRank(times, 99, st.p99ResponseTime)
            /\ n = 0 => /\ st.minResponseTime = 0
                        /\ st.maxResponseTime = 0
                        /\ st.avgResponseTime.num = 0
            /\ n > 0 =>
                 /\ st.minResponseTime \in Range(times)
                 /\ st.maxResponseTime \in Range(times)
                 /\ \A k \in 1..n : /\ st.minResponseTime <= times[k]
                                    /\ times[k] <= st.maxResponseTime
                 /\ st.avgResponseTime.den = n
                 /\ st.avgResponseTime.num = SumOf(times, 0, n)

\* the statistics of a log of 20 or more Results, some with elapsed time 0,
\* whose three percentiles differ
C16_Witness ==
    /\ pc = "aggregated"
    /\ Len(results) >= 20
    /\ \E k \in 1..Len(results) : results[k].responseTime = 0
    /\ returned[1].stats.p50ResponseTime < returned[1].stats.p95ResponseTime
    /\ returned[1].stats.p95ResponseTime < returned[1].stats.p99ResponseTime

\* C17: whenever the log has a Result with elapsed time > 0,
\* minResponseTime <= p50 <= p95 <= p99 <= maxResponseTime.
C17_PercentilesMonotone ==
    \A c \in 1..Len(returned) :
        LET st == returned[c].stats
        IN  (\E k \in 1..Len(returned[c].requests) :
                 returned[c].requests[k].responseTime > 0) =>
                /\ 0 < st.minResponseTime
                /\ st.minResponseTime <= st.p50ResponseTime
                /\ st.p50ResponseTime <= st.p95ResponseTime
                /\ st.p95ResponseTime <= st.p99ResponseTime
                /\ st.p99ResponseTime <= st.maxResponseTime

\* the statistics of a log whose elapsed times fall from request to
\* request: the five values differ
C17_Witness ==
    /\ pc = "aggregated"
    /\ Len(results) >= 100
    /\ \A k \in 1..(Len(results) - 1) :
           results[k].responseTime > results[k + 1].responseTime
    /\ returned[1].stats.minResponseTime < returned[1].stats.p50ResponseTime
    /\ returned[1].stats.p50ResponseTime < returned[1].stats.p95ResponseTime
    /\ returned[1].stats.p95ResponseTime < returned[1].stats.p99ResponseTime
    /\ returned[1].stats.p99ResponseTime < returned[1].stats.maxResponseTime

OneTransportError(rq) ==
    /\ Len(rq) > 0
    /\ \A k \in 1..Len(rq) : /\ rq[k].statusCode = NoStatus
                             /\ rq[k].error # NoError
                             /\ rq[k].error = rq[1].error

\* C19: a run, of any pattern, in which every transport call failed with
\* the same error returns successRate 0, successfulRequests 0,
\* failedRequests = totalRequests, an empty statusCodeDistribution and an
\* errorDistribution whose only key is that error, with count totalRequests.
C19_SingleTransportError ==
    \A c \in 1..Len(returned) :
        LET st == returned[c].stats
            rq == returned[c].requests
        IN  (pc = "done" /\ OneTransportError(rq)) =>
                /\ st.successRate.num = 0
                /\ st.successRate.den > 0
                /\ st.successfulRequests = 0
                /\ st.failedRequests = config.totalRequests
                /\ st.totalRequests = config.totalRequests
                /\ DOMAIN st.statusCodeDistribution = {}
                /\ DOMAIN st.errorDistribution = { rq[1].error }
                /\ st.errorDistribution[rq[1].error] = config.totalRequests

\* a run of several phases and requests in which every call was refused has
\* returned
C19_Witness ==
    /\ pc = "done"
    /\ Len(phases) >= 2
    /\ config.totalRequests >= 3
    /\ OneTransportError(returned[1].requests)
    /\ returned[1].stats.errorDistribution["ECONNREFUSED: Connection refused"]
         = config.totalRequests

\* the number of Results of the log for which field f has value v
CountOf(rq, f, v) == Cardinality({ k \in 1..Len(rq) : rq[k][f] = v })

\* C20 (as claimed): the keys of statusCodeDistribution are the status
\* codes the Results carry and the keys of errorDistribution the error
\* strings they carry, each with the number of Results carrying it; a
\* Result with status >= 400 and no error is counted under no error key.
C20_ExactCounts ==
    \A c \in 1..Len(returned) :
        LET st == returned[c].stats
            rq == returned[c].requests
        IN  /\ DOMAIN st.statusCodeDistribution =
                 { rq[k].statusCode : k \in 1..Len(rq) } \ { NoStatus }
            /\ \A code \in DOMAIN st.statusCodeDistribution :
                 st.statusCodeDistribution[code] = CountOf(rq, "statusCode", code)
            /\ DOMAIN st.errorDistribution =
                 { rq[k].error : k \in 1..Len(rq) } \ { NoError }
            /\ \A e \in DOMAIN st.errorDistribution :
                 st.errorDistribution[e] = CountOf(rq, "error", e)

\* the Results of the log that are failed and carry no error
FailedWithoutError(rq) ==
    Cardinality({ k \in 1..Len(rq) : IsFailed(rq[k]) /\ rq[k].error = NoError })

\* C20 (amended): statusCodeDistribution has exactly the status codes the
\* Results carry, each with the number of Results carrying it, and
\* errorDistribution has exactly the error strings the Results carry, each
\* with the number of Results carrying it, except that every Result with
\* status >= 400 and no error is counted as well, under "Unknown error".
C20_CountsWithFallback ==
    \A c \in 1..Len(returned) :
        LET st == returned[c].stats
            rq == returned[c].requests
            fallback == IF FailedWithoutError(rq) > 0
                        THEN { "Unknown error" } ELSE {}
        IN  /\ DOMAIN st.statusCodeDistribution =
                 { rq[k].statusCode : k \in 1..Len(rq) } \ { NoStatus }
            /\ \A code \in DOMAIN st.statusCodeDistribution :
                 st.statusCodeDistribution[code] = CountOf(rq, "statusCode", code)
            /\ DOMAIN st.errorDistribution =
                 ({ rq[k].error : k \in 1..Len(rq) } \ { NoError })
                     \cup fallback
            /\ \A e \in DOMAIN st.errorDistribution :
                 st.errorDistribution[e] =
                     CountOf(rq, "error", e)
                       + (IF e = "Unknown error" THEN FailedWithoutError(rq)
                          ELSE 0)
            /\ FailedWithoutError(rq) =
                 Cardinality({ k \in 1..Len(rq) : rq[k].statusCode >= 400 })

\* the statistics of a log with a 2xx answer, answers with status >= 400
\* and transport failures of more than one kind
C20_Witness ==
    /\ pc = "aggregated"
    /\ Len(results) >= 20
    /\ "Unknown error" \in DOMAIN returned[1].stats.errorDistribution
    /\ Cardinality(DOMAIN returned[1].stats.errorDistribution) >= 2
    /\ Cardinality(DOMAIN returned[1].stats.statusCodeDistribution) >= 2

\* C21: failedRequests is the number of Results with a status >= 400 or an
\* error, successfulRequests the number of Results with a status < 400, and
\* successRate is successfulRequests / total * 100, or 0 for an empty log.
C21_FailedAndSuccessful ==
    \A c \in 1..Len(returned) :
        LET st == returned[c].stats
            rq == returned[c].requests
            failed == { k \in 1..Len(rq) :
                          \/ rq[k].statusCode # NoStatus /\ rq[k].statusCode >= 400
                          \/ rq[k].error # NoError }
            successful == { k \in 1..Len(rq) :
                              rq[k].statusCode # NoStatus /\ rq[k].statusCode < 400 }
        IN  /\ st.totalRequests = Len(rq)
            /\ st.failedRequests = Cardinality(failed)
            /\ st.successfulRequests = Cardinality(successful)
            /\ st.successRate.den > 0
            /\ IF Len(rq) = 0
               THEN st.successRate.num = 0
               ELSE st.successRate.num * Len(rq)
                      = Cardinality(successful) * 100 * st.successRate.den

\* the statistics of a log with answers below 400, answers with status >=
\* 400 and transport failures, whose success rate is not a whole number
C21_Witness ==
    /\ pc = "aggregated"
    /\ \E k \in 1..Len(results) : results[k].statusCode >= 400
    /\ \E k \in 1..Len(results) : results[k].error # NoError
    /\ returned[1].stats.successfulRequests > 0
    /\ returned[1].stats.failedRequests
         > Cardinality({ k \in 1..Len(results) : results[k].error # NoError })
    /\ (returned[1].stats.successRate.num % returned[1].stats.successRate.den) # 0

\* the phases of the run that have completed: all but the one in progress
PhasesExecuted == Len(phases) - (IF pc = "phase" THEN 1 ELSE 0)

\* C22: onProgress is invoked only when a phase has completed: no request
\* is in flight or waiting for a permit and every request dispatched so far
\* has its Result in the run log; it is invoked once for each phase
\* executed, and not after run() has returned or failed.
C22_ProgressAtCheckpoints ==
    /\ [][ progress' # progress =>
             /\ pc = "phase"
             /\ inflight = {}
             /\ waitQueue = << >>
             /\ PhaseSettled(PhaseState, phaseCount)
             /\ Len(results') = Len(dispatched)
             /\ Len(progress') = Len(progress) + 1
             /\ SubSeq(progress', 1, Len(progress)) = progress
             /\ progress'[Len(progress')].completed = Len(dispatched) ]_vars
    /\ [][ (pc \in { "done", "failed", "rejected" }) =>
             progress' = progress ]_vars
    /\ [](hasObserver => Len(progress) = PhasesExecuted)
    /\ [](~hasObserver => progress = << >>)

\* a run with an observer has returned after several phases with a pause
\* between them, one of the phases settled out of index order
C22_Witness ==
    /\ pc = "done"
    /\ hasObserver
    /\ Len(phases) >= 3
    /\ Len(pauses) >= 1
    /\ outOfOrder
    /\ Len(progress) = Len(phases)
    /\ progress[Len(progress)].completed = config.totalRequests

\* C23 (as claimed): whether or not an observer is registered and whatever
\* it does, an Error it throws at a checkpoint neither leaves run() nor
\* stops the phases that follow: run() fails only before the first
\* dispatch, for a reason of the configuration, and a run that has sent a
\* request goes on until it returns a Result for every index.
C23_ProgressAdvisory ==
    /\ failure # ObserverError
    /\ pc = "failed" => dispatched = << >>
    /\ pc = "done" => /\ Len(returned[1].requests) = config.totalRequests
                      /\ returned[1].stats.totalRequests = config.totalRequests

\* C24: the snapshot handed to onProgress is taken from the run log as it
\* is after the finished phase was appended: completed is the length of the
\* log, total is totalRequests, percentage is completed / total * 100,
\* errors is the number of Results of the whole log with an error or a
\* status >= 400, avgResponseTime is the mean elapsed time of the last
\* min(100, completed) Results, and currentRps is that number of Results
\* divided by the seconds since the run started (0 for an empty log or a
\* start time of 0).
C24_SnapshotFields ==
    [][ progress' # progress =>
          LET snap == progress'[Len(progress')]
              rq == results'
              n == Len(rq)
              w == Min(100, n)
              elapsed == now' - startTime'
          IN  /\ snap.completed = n
              /\ snap.total = config.totalRequests
              /\ snap.percentage.den > 0
              /\ snap.percentage.num * config.totalRequests
                   = n * 100 * snap.percentage.den
              /\ snap.errors =
                   Cardinality({ k \in 1..n :
                                   \/ rq[k].error # NoError
                                   \/ rq[k].statusCode >= 400 })
              /\ IF n = 0
                 THEN snap.avgResponseTime.num = 0
                 ELSE /\ snap.avgResponseTime.den > 0
                      /\ snap.avgResponseTime.num * w
                           = SumOf(Pluck(rq, "responseTime"), n - w, n)
                               * snap.avgResponseTime.den
              /\ IF n = 0 \/ startTime' = 0
                 THEN snap.currentRps.num = 0
                 ELSE snap.currentRps.num * elapsed
                        = w * 1000 * snap.currentRps.den ]_vars

\* progress was reported on a log of more than 100 Results, some time after
\* the start: a failed Result lies before the last 100, and the mean over
\* the last 100 is not the mean over the whole log
C24_Witness ==
    /\ pc = "log"
    /\ Len(progress) = 1
    /\ Len(results) > 100
    /\ now > startTime
    /\ progress[1].currentRps.num > 0
    /\ progress[1].errors >
         Cardinality({ k \in (Len(results) - 99)..Len(results) :
                         IsError(results[k]) })
    /\ progress[1].avgResponseTime.num * Len(results)
         # SumOf(Pluck(results, "responseTime"), 0, Len(results))
             * progress[1].avgResponseTime.den

\* request i waits for a permit of the limiter of the current phase
Suspended(i) ==
    /\ pc = "phase"
    /\ \E k \in 1..Len(waitQueue) : phaseStart + waitQueue[k] = i

\* every caller suspended in acquire() is granted a permit at some time and
\* calls makeRequest
SuspendedAreGranted ==
    \A i \in LiveIndices : Suspended(i) ~> (i \in Range(dispatched))

\* the promise of every makeConcurrentRequests call resolves at some time
PhasesTerminate ==
    \A k \in 1..(2 * Cardinality(LiveIndices)) :
        (pc = "phase" /\ Len(phases) = k) ~>
            \/ Len(phases) = k /\ PhaseSettled(PhaseState, phaseCount)
            \/ Len(phases) > k
            \/ pc # "phase"

\* run() returns or throws at some time
RunsTerminate == <>(pc \in { "rejected", "failed", "done" })

C26_PermitFloor ==
    /\ pc = "phase" =>
         LET c == phases[Len(phases)].concurrency
         IN  /\ permits + Cardinality(inflight) = Max(1, c)
             /\ inflight # {} \/ PhaseSettled(PhaseState, phaseCount)
             /\ (c <= 0 /\ ~PhaseSettled(PhaseState, phaseCount)) =>
                  /\ Cardinality(inflight) = 1
                  /\ permits = 0
                  /\ Len(waitQueue) = phaseCount - Len(phaseResults) - 1
    /\ \A k \in 1..Len(phases) :
         (phases[k].concurrency <= 0 /\ (k < Len(phases) \/ pc # "phase")) =>
             Len(results) >= phases[k].resolvedBefore + Max(0, phases[k].count)

\* the reduced phase of a spike run with concurrency 3 has two requests:
\* the first has resolved, the second is in flight, later than the first
C26_Witness ==
    /\ pc = "phase"
    /\ PatternOf(config) = "spike"
    /\ phases[Len(phases)].concurrency = 0
    /\ phaseCount = 2
    /\ Len(phaseResults) = 1
    /\ Cardinality(inflight) = 1
    /\ now > startTime

\* the position of index i in the order of the makeRequest calls, or 0
CallOf(i) ==
    IF \E a \in 1..Len(dispatched) : dispatched[a] = i
    THEN CHOOSE a \in 1..Len(dispatched) : dispatched[a] = i
    ELSE 0

\* C27: within a phase makeRequest is called in index order: when the call
\* for an index of the phase has been made, the call for every smaller
\* index of the same phase was made before it, whatever the order in which
\* the earlier requests resolved; no index is handed to the transport twice.
C27_DispatchInIndexOrder ==
    /\ \A a, b \in 1..Len(dispatched) : a < b => dispatched[a] # dispatched[b]
    /\ \A k \in 1..Len(phases) :
         \A i, j \in phases[k].startIndex..(phases[k].startIndex + phases[k].count - 1) :
             (i < j /\ CallOf(j) > 0) => (CallOf(i) > 0 /\ CallOf(i) < CallOf(j))

\* requests 0 and 1 of a phase were in flight together, 1 resolved first and
\* its permit went to request 2 while 0 was still unresolved
C27_Witness ==
    /\ pc = "phase"
    /\ phaseCount >= 3
    /\ Len(phaseResults) >= 1
    /\ phaseResults[1].index = phaseStart + 1
    /\ phaseStart \in inflight
    /\ CallOf(phaseStart + 2) > CallOf(phaseStart + 1)

\* C28: a burst run is one makeConcurrentRequests(0, totalRequests,
\* Config.concurrency) and no sleep(): in every state of its phase each of
\* the totalRequests requests is suspended in acquire(), in flight or
\* resolved, so all of them have called acquire() before the first resolves;
\* and run() returns only when all of them have resolved.
C28_BurstSinglePhase ==
    PatternOf(config) = "burst" =>
        /\ Len(phases) <= 1
        /\ pauses = << >>
        /\ \A k \in 1..Len(phases) :
             /\ phases[k].startIndex = 0
             /\ phases[k].count = config.totalRequests
             /\ phases[k].concurrency = config.concurrency
        /\ pc = "phase" =>
             /\ Len(waitQueue) + Cardinality(inflight) + Len(phaseResults)
                    = config.totalRequests
             /\ Len(dispatched) = Cardinality(inflight) + Len(phaseResults)
             /\ results = << >>
        /\ pc = "done" =>
             /\ Len(phases) = 1
             /\ inflight = {} /\ waitQueue = << >>
             /\ Len(results) = config.totalRequests
             /\ Len(dispatched) = config.totalRequests
        /\ returned # << >> => pc = "done"

\* a burst of more requests than permits before its first request resolves:
\* Config.concurrency requests are in flight, the others wait in acquire()
C28_Witness ==
    /\ PatternOf(config) = "burst"
    /\ pc = "phase"
    /\ phaseResults = << >>
    /\ Cardinality(inflight) = config.concurrency
    /\ Len(waitQueue) = config.totalRequests - config.concurrency
    /\ Len(waitQueue) >= 2

\* the ramp-up runs the claim is about: validated, with a step >= 1
SteppedRamp ==
    /\ config.pattern = "ramp-up"
    /\ config.rampUp.present
    /\ validateRampUpConfig(config.rampUp) = NoFailure
    /\ StepOf(config.rampUp) >= 1

\* C29: in a ramp-up run with step >= 1 the k-th plateau (k = 0, 1, ...) is
\* a makeConcurrentRequests call with concurrency
\* min(startConcurrency + k * step, endConcurrency) and count
\* min(that concurrency, totalRequests - requests of the earlier plateaus);
\* the concurrencies never decrease and never exceed endConcurrency; and
\* each plateau below endConcurrency, and no other, is followed by one
\* sleep(rampUpTime / ceil((endConcurrency - startConcurrency) / step)).
C29_RampPlateaus ==
    SteppedRamp =>
        LET r == config.rampUp
            stepsToEnd == CeilDiv(r.endConcurrency - r.startConcurrency, StepOf(r))
        IN  /\ \A k \in 1..Len(phases) :
                 LET c == Min(r.startConcurrency + (k - 1) * StepOf(r),
                              r.endConcurrency)
                 IN  /\ phases[k].concurrency = c
                     /\ phases[k].count = Min(c, config.totalRequests - phases[k].startIndex)
                     /\ phases[k].startIndex = phases[k].resolvedBefore
                     /\ phases[k].count >= 1
                     /\ phases[k].concurrency <= r.endConcurrency
                     /\ k > 1 => /\ phases[k - 1].concurrency <= phases[k].concurrency
                                 /\ phases[k].startIndex
                                      = phases[k - 1].startIndex + phases[k - 1].count
            /\ \A m \in 1..Len(pauses) :
                 /\ pauses[m].phasesBefore = m
                 /\ phases[m].concurrency < r.endConcurrency
                 /\ pauses[m].den > 0
                 /\ pauses[m].num * stepsToEnd = r.rampUpTime * pauses[m].den
            /\ \A k \in 1..PhasesExecuted :
                 phases[k].concurrency < r.endConcurrency => Len(pauses) >= k
            /\ pc = "done" =>
                 phases[Len(phases)].startIndex + phases[Len(phases)].count
                     = config.totalRequests

\* a finished ramp from 1 to 3 in steps of 1 with Config.concurrency 1: the
\* plateaus ran at 1, 2 and 3, the last with the one request that was left
C29_Witness ==
    /\ SteppedRamp
    /\ pc = "done"
    /\ Len(phases) = 3
    /\ Len(pauses) = 2
    /\ phases[3].concurrency = config.rampUp.endConcurrency
    /\ phases[3].concurrency > config.concurrency
    /\ phases[3].count < phases[3].concurrency

\* floor(totalRequests * 0.8)
EightTenths == FloorDiv(config.totalRequests * 8, 10)

\* what C30 says of both readings: a spike run has at most two phases over
\* consecutive index ranges and one sleep(1000) between them, taken when
\* the first phase has resolved and nothing of the second is dispatched
SpikeRangesAndPause ==
    /\ Len(phases) <= 2
    /\ Len(pauses) <= 1
    /\ Len(phases) >= 1 =>
         /\ phases[1].startIndex = 0
         /\ phases[1].concurrency = FloorDiv(config.concurrency * 3, 10)
    /\ Len(phases) = 2 =>
         /\ phases[2].startIndex = phases[1].startIndex + phases[1].count
         /\ phases[2].startIndex + phases[2].count = config.totalRequests
         /\ phases[2].concurrency = config.concurrency
         /\ Len(pauses) = 1
    /\ \A a \in 1..Len(dispatched) :
         \E k \in 1..Len(phases) :
             /\ dispatched[a] >= phases[k].startIndex
             /\ dispatched[a] < phases[k].startIndex + phases[k].count
             /\ k = 2 => a > phases[1].count
    /\ Len(pauses) = 1 =>
         /\ IsMs(pauses[1], SpikePause)
         /\ pauses[1].phasesBefore = 1
         /\ pauses[1].resolvedBefore = phases[1].count
    /\ pc = "sleep" =>
         /\ Len(pauses) = 1 /\ Len(phases) = 1
         /\ inflight = {} /\ waitQueue = << >>
         /\ Len(results) = phases[1].count
         /\ Len(dispatched) = phases[1].count
    /\ (pc = "phase" /\ Len(phases) = 2) =>
         /\ wakeAt >= startTime + SpikePause
         /\ \A i \in inflight : issuedAt[i] >= wakeAt
    /\ pc = "done" =>
         /\ Len(phases) = 2
         /\ Len(results) = config.totalRequests

\* C30 (as claimed): the reduced-concurrency phase of a spike run has
\* floor(totalRequests * 0.8) requests and the full-concurrency phase the
\* other totalRequests - floor(totalRequests * 0.8); the two cover
\* consecutive index ranges and one pause of 1000 lies between them.
C30_ReducedPhaseHasEightTenths ==
    PatternOf(config) = "spike" =>
        /\ SpikeRangesAndPause
        /\ Len(phases) >= 1 => phases[1].count = EightTenths
        /\ Len(phases) = 2 => phases[2].count = config.totalRequests - EightTenths

\* C30 (amended): the reduced-concurrency phase, which runs first, has
\* totalRequests - floor(totalRequests * 0.8) requests (at least one) and
\* the full-concurrency phase floor(totalRequests * 0.8) (none when
\* totalRequests = 1); the two cover consecutive index ranges and exactly
\* one pause of 1000 is taken, when the first phase has resolved and before
\* any request of the second is dispatched.
C30_SpikePhasesAndPause ==
    PatternOf(config) = "spike" =>
        /\ SpikeRangesAndPause
        /\ Len(phases) >= 1 =>
             /\ phases[1].count = config.totalRequests - EightTenths
             /\ phases[1].count >= 1
        /\ Len(phases) = 2 => phases[2].count = EightTenths

\* the spike phase of 4 requests at concurrency 3 is under way, a second
\* after the 2 requests of the reduced phase resolved one after the other
C30_Witness ==
    /\ PatternOf(config) = "spike"
    /\ pc = "phase"
    /\ Len(phases) = 2
    /\ phases[1].count = 2
    /\ phases[2].count = 4
    /\ Cardinality(inflight) = 3
    /\ Len(results) = 2
    /\ now >= startTime + 2 * latency + SpikePause

\* the indices of the k-th makeConcurrentRequests call of the run
PhaseRange(k) == phases[k].startIndex..(phases[k].startIndex + phases[k].count - 1)

\* C31: phases never overlap and are not cut short.  Outside a phase nothing
\* is in flight or waiting; inside one, every request in flight or waiting
\* belongs to the current phase; every call handed to the transport is in
\* flight or has its Result; all requests of an earlier phase are in the run
\* log.  A phase is left, and the next one started, only when all its
\* requests have resolved, and the next phase starts with a limiter of its
\* own: max(1, concurrency) permits shared by its first requests, all its
\* other requests waiting.
C31_PhasesDoNotOverlap ==
    /\ [](/\ pc # "phase" => (inflight = {} /\ waitQueue = << >>)
          /\ pc = "phase" =>
               /\ inflight \subseteq PhaseRange(Len(phases))
               /\ \A q \in 1..Len(waitQueue) :
                    phaseStart + waitQueue[q] \in PhaseRange(Len(phases)) \ inflight
          /\ Len(dispatched) = Len(results) + Len(phaseResults) + Cardinality(inflight)
          /\ \A k \in 1..(Len(phases) - 1) : PhaseRange(k) \subseteq Indices(results))
    /\ [][ (phases' # phases \/ (pc = "phase" /\ pc' # "phase")) =>
              /\ inflight = {} /\ waitQueue = << >>
              /\ Len(phaseResults) = Max(0, phaseCount)
              /\ phases' # phases =>
                   LET new == phases'[Len(phases')]
                   IN  /\ permits' + Cardinality(inflight') = Max(1, new.concurrency)
                       /\ Cardinality(inflight') = Min(Max(0, new.count), Max(1, new.concurrency))
                       /\ Len(waitQueue') + Cardinality(inflight') = Max(0, new.count)
                       /\ Len(dispatched') = Len(results') + Cardinality(inflight') ]_vars

\* the second batch of a run is in flight; the first batch resolved out of
\* index order and is in the run log
C31_Witness ==
    /\ pc = "phase"
    /\ Len(phases) = 2
    /\ outOfOrder
    /\ Len(results) = 2
    /\ Cardinality(inflight) = 2
    /\ inflight = PhaseRange(2)

\* C32: the limiter of a phase, built with capacity P = max(1, concurrency):
\* 0 <= permits <= P; permits + the requests that hold a permit = P;
\* waitQueue is non-empty only when permits = 0; a request in the phase holds
\* a permit exactly while it is in flight, so acquisitions = releases +
\* holders; and when every request of the phase has its Result, failed or
\* not, waitQueue is empty and permits = P.
C32_LimiterAccounting ==
    pc = "phase" =>
        LET P == Max(1, phases[Len(phases)].concurrency)
            acquired == Len(dispatched) - Len(results)
            released == Len(phaseResults)
        IN  /\ 0 <= permits /\ permits <= P
            /\ permits + Cardinality(inflight) = P
            /\ waitQueue # << >> => permits = 0
            /\ acquired = released + Cardinality(inflight)
            /\ Len(phaseResults) = Max(0, phaseCount) =>
                 /\ waitQueue = << >>
                 /\ permits = P
                 /\ acquired = released

\* a phase of 3 requests under 2 permits has resolved, one request failed
\* and a waiter was resumed: the permits are back
C32_Witness ==
    /\ pc = "phase"
    /\ phaseCount = 3
    /\ Len(phaseResults) = 3
    /\ phases[Len(phases)].concurrency = 2
    /\ permits = 2
    /\ \E k \in 1..3 : phaseResults[k].error # NoError

\* C33: a ramp-up run whose rampUp block passes validateRampUpConfig, with
\* any step: every plateau sends at least one request, the request index
\* never goes down from one plateau to the next, and with every transport
\* call settled the run ends.
C33_RampTerminates ==
    /\ [](config.pattern = "ramp-up" =>
            \A k \in 1..Len(phases) :
                /\ phases[k].count >= 1
                /\ k > 1 => phases[k].startIndex >= phases[k - 1].startIndex)
    /\ (config.pattern = "ramp-up" /\ pc = "init")
           ~> (pc \in { "rejected", "failed", "done" })

\* the concurrency increases of the run that are followed by a plateau
IncreasesWithPlateau ==
    { k \in 1..(Len(phases) - 1) : phases[k + 1].concurrency > phases[k].concurrency }

\* C34: a ramp-up run sleeps only between two plateaus: once it has
\* returned, every sleep() it made was followed by a plateau, and it made
\* as many as there were concurrency increases followed by a plateau.
C34_PausesOnlyBetweenPlateaus ==
    (config.pattern = "ramp-up" /\ pc = "done") =>
        /\ \A m \in 1..Len(pauses) : pauses[m].phasesBefore < Len(phases)
        /\ Len(pauses) = Cardinality(IncreasesWithPlateau)

\* the `requests` of the k-th returned object as its holder sees them: the
\* array is the one the object was given, which changes when it still is
\* this.results
RequestsOf(k) ==
    IF returnedRef[k] = logRef THEN results ELSE returned[k].requests

\* C35: run() called again after run() has returned starts from an empty
\* log of its own: every returned object, whenever it is looked at, holds
\* exactly totalRequests Results with the indices 0..totalRequests-1, as it
\* did when it was returned; no step changes an object that was returned;
\* and while a run is under way the log holds Results of that run only.
C35_RerunStartsEmpty ==
    /\ [](/\ \A k \in 1..Len(returned) :
               /\ RequestsOf(k) = returned[k].requests
               /\ Len(RequestsOf(k)) = config.totalRequests
               /\ Indices(RequestsOf(k)) = 0..(config.totalRequests - 1)
               /\ returned[k].stats.totalRequests = config.totalRequests
          /\ \A a, b \in 1..Len(returnedRef) : a # b => returnedRef[a] # returnedRef[b]
          /\ pc \in { "phase", "sleep" } => Len(results) <= config.totalRequests)
    /\ [][ \A k \in 1..Len(returned) : returned'[k] = returned[k] ]_vars

\* the second run() has returned other Results than the first
C35_Witness ==
    /\ pc = "done"
    /\ Len(returned) = 2
    /\ config.totalRequests = 2
    /\ returned[1].requests # returned[2].requests
    /\ returned[1].stats # returned[2].stats
    /\ RequestsOf(1) = returned[1].requests

\* C36: when two run() invocations on one StressTester overlap, each object
\* returned holds, whenever it is looked at, exactly totalRequests Results
\* with the indices 0..totalRequests-1, none twice, and the two objects do
\* not hold the same array.
C36_OverlappingRunsOwnTheirLog ==
    other.pc # "idle" =>
        /\ \A k \in 1..Len(returned) :
             /\ Len(RequestsOf(k)) = config.totalRequests
             /\ Indices(RequestsOf(k)) = 0..(config.totalRequests - 1)
        /\ \A a, b \in 1..Len(returnedRef) : a # b => returnedRef[a] # returnedRef[b]

\* C37: over the snapshots of a run `completed` never decreases and never
\* exceeds `total`, which is Config.totalRequests; when run() has returned,
\* the last snapshot has completed = totalRequests, percentage 100 and as
\* many errors as the returned statistics have failedRequests.
C37_ProgressReachesTotal ==
    /\ \A k \in 1..Len(progress) :
         /\ progress[k].total = config.totalRequests
         /\ progress[k].completed >= 0
         /\ progress[k].completed <= progress[k].total
         /\ k > 1 => progress[k - 1].completed <= progress[k].completed
    /\ (pc = "done" /\ hasObserver) =>
         /\ progress # << >>
         /\ LET last == progress[Len(progress)]
            IN  /\ last.completed = config.totalRequests
                /\ last.percentage.num = 100 * last.percentage.den
                /\ last.errors = returned[Len(returned)].stats.failedRequests

\* a run of several phases has returned; its first snapshot was short of the
\* total, and a response with status 500 and no error field is counted in
\* the errors of the last
C37_Witness ==
    /\ pc = "done"
    /\ hasObserver
    /\ Len(progress) >= 2
    /\ progress[1].completed < config.totalRequests
    /\ progress[Len(progress)].errors >= 1
    /\ \E k \in 1..Len(results) :
         results[k].statusCode = 500 /\ results[k].error = NoError

\* the sum of the counts of a distribution
RECURSIVE SumOfCounts(_, _)
SumOfCounts(distribution, keys) ==
    IF keys = {} THEN 0
    ELSE LET key == CHOOSE k \in keys : TRUE
         IN  distribution[key] + SumOfCounts(distribution, keys \ { key })

\* C38: in the statistics of every returned run successfulRequests +
\* failedRequests = totalRequests = Config.totalRequests; every Result is
\* successful (a status below 400) or failed (no status, a status of 400 or
\* more, or an error) and none is both; and the counts of errorDistribution
\* add up to failedRequests.
C38_CountsAddUp ==
    \A c \in 1..Len(returned) :
        LET st == returned[c].stats
            rq == returned[c].requests
            good(r) == r.statusCode # NoStatus /\ r.statusCode < 400
            bad(r) == r.statusCode = NoStatus \/ r.statusCode >= 400
                          \/ r.error # NoError
        IN  /\ st.totalRequests = config.totalRequests
            /\ st.totalRequests = Len(rq)
            /\ st.successfulRequests + st.failedRequests = st.totalRequests
            /\ \A k \in 1..Len(rq) : good(rq[k]) # bad(rq[k])
            /\ st.successfulRequests = Cardinality({ k \in 1..Len(rq) : good(rq[k]) })
            /\ st.failedRequests = Cardinality({ k \in 1..Len(rq) : bad(rq[k]) })
            /\ SumOfCounts(st.errorDistribution, DOMAIN st.errorDistribution)
                 = st.failedRequests

\* a returned run with an answer below 400, an answer of 500 without an
\* error field and a request the transport failed
C38_Witness ==
    /\ pc = "done"
    /\ Len(returned) = 1
    /\ returned[1].stats.successfulRequests >= 1
    /\ returned[1].stats.failedRequests >= 2
    /\ "Unknown error" \in DOMAIN returned[1].stats.errorDistribution
    /\ Cardinality(DOMAIN returned[1].stats.errorDistribution) >= 2

====
